---------------------------- MODULE Spec2Model ----------------------------
(***************************************************************************)
(* A model of the derivation logic of the paper-trading dashboard:         *)
(*   - computeHealthVerdict                    (MemeScanner)               *)
(*   - groupedActivity                         (App)                       *)
(*   - supply, priceUsd, marketCap and the sticky display values           *)
(*                                             (MemeScanner)               *)
(*   - realizedPnL and timeframeStats          (PortfolioAnalyzer)         *)
(*   - pnl, pnlPct and estBoughtMCap           (TradePanel)                *)
(*   - onBuy and onSellAll, await by await     (TradePanel)                *)
(*   - the state poll and its cleanup          (PortfolioAnalyzer)         *)
(*   - overlapping calls of refresh            (App)                       *)
(* Each component has its own specification; the variables of the other    *)
(* components keep the values they have when the components mount.         *)
(*                                                                         *)
(* Numbers.  A JavaScript number that may be missing or fractional is a    *)
(* tuple: <<>> is null/undefined, <<n, d>> with d > 0 is the number n/d,   *)
(* and <<0, 0>> is NaN (typeof 'number', not finite, every comparison      *)
(* false).  Fields that the types declare as plain numbers (ts, price,     *)
(* qty, value) are integers.  A string that is trimmed or matched is the   *)
(* sequence of its characters.                                             *)
(***************************************************************************)
EXTENDS Integers, Sequences, FiniteSets, TLC

VARIABLES
    params,           \* computeHealthVerdict: the signals it is called with
    health,           \* MemeScanner: the verdict memoised for params
    snapshot,         \* history variable: the ledger as setState received it
    history,          \* App: state.history, the ledger of the last snapshot
    groupedActivity,  \* App: the memoised per-token summaries of history
    profile,          \* App: the memoised profile aggregates of history
    serverRev,        \* the collaborator: how many changes it has applied
    refreshCalls,     \* App: the calls of refresh, by order of issue
    appState,         \* App: useState, the snapshot installed, NULL at first
    appLoading,       \* App: useState
    appError,         \* App: useState, a message or none
    installedBy,      \* history variable: the call whose snapshot is installed
    inputMint,        \* MemeScanner: the text of the input
    searchedMint,     \* MemeScanner: the scanned address, NULL before a scan
    report,           \* MemeScanner: data of useSWR(reportKey)
    priceResp,        \* MemeScanner: data of useSWR(priceKey)
    supply,           \* MemeScanner: useMemo over report
    priceUsd,         \* MemeScanner: useMemo over priceResp
    marketCap,        \* MemeScanner: useMemo over priceUsd and supply
    priceUsdStable,   \* MemeScanner: useState
    supplyStable,     \* MemeScanner: useState
    marketCapStable,  \* MemeScanner: useState
    lastValidPrice,   \* history variable: the last valid price reported by
                      \* the price source since the current scan began
    lastValidMarketCap, \* history variable: the last valid live market cap
                      \* and the supply it was computed with
    observedFor,      \* history variable: the scanned address each response
                      \* and each sticky value was observed for
    ledger,           \* the collaborator: the ledger /api/state reports
    data,             \* PortfolioAnalyzer: the polled snapshot, NULL at first
    analyzerError,    \* PortfolioAnalyzer: the error state, a message or none
    pollAnswer,       \* history variable: how the last poll was answered
    timeframe,        \* PortfolioAnalyzer: the selected window
    now,              \* PortfolioAnalyzer: Date.now() read by timeframeStats
    realizedPnL,      \* PortfolioAnalyzer: useMemo over data.history
    timeframeStats,   \* PortfolioAnalyzer: useMemo over history and timeframe
    mounted,          \* PortfolioAnalyzer: the poll effect's mounted flag
    loading,          \* PortfolioAnalyzer: useState
    tickPc,           \* PortfolioAnalyzer: where tick stands: idle, awaiting
                      \* fetch, awaiting res.json()
    tickRes,          \* PortfolioAnalyzer: the response tick holds
    timer,            \* PortfolioAnalyzer: the poll effect's timer variable,
                      \* 0 while undefined
    scheduled,        \* the browser: the timeouts set and not yet fired or
                      \* cleared
    stateData,        \* TradePanel: data of useSWR('state'), NULL at first
    currentPrice,     \* TradePanel: the currentPrice prop
    mcapProp,         \* TradePanel: the marketCap prop
    tradePnl,         \* TradePanel: the pnl memo
    tradePnlPct,      \* TradePanel: the pnlPct memo
    estBoughtMCap,    \* TradePanel: the estBoughtMCap memo
    mintProp,         \* TradePanel: the mint prop
    usd,              \* TradePanel: useState, the entered amount
    selectedPct,      \* TradePanel: useState, the selected percent chip
    actionError,      \* TradePanel: useState, a message or none
    busy,             \* TradePanel: useState, 'buy', 'sell' or null
    pending,          \* TradePanel: the calls of onBuy and onSellAll that
                      \* await an answer, counted by handler and by await
    lastStep          \* history variable: what the handler step just taken
                      \* did, NULL after any other step

healthVars == <<params, health>>
refreshVars ==
    <<serverRev, refreshCalls, appState, appLoading, appError, installedBy>>
activityVars == <<snapshot, history, groupedActivity, profile, refreshVars>>
scannerVars ==
    <<inputMint, searchedMint, report, priceResp, supply, priceUsd, marketCap,
      priceUsdStable, supplyStable, marketCapStable, lastValidPrice,
      lastValidMarketCap, observedFor>>
pollVars == <<mounted, loading, tickPc, tickRes, timer, scheduled>>
analyzerVars ==
    <<ledger, data, analyzerError, pollAnswer, timeframe, now, realizedPnL,
      timeframeStats, pollVars>>
panelVars ==
    <<stateData, currentPrice, mcapProp, tradePnl, tradePnlPct, estBoughtMCap>>
orderVars ==
    <<mintProp, usd, selectedPct, actionError, busy, pending, lastStep>>
tradeVars == <<panelVars, orderVars>>
vars == <<healthVars, activityVars, scannerVars, analyzerVars, tradeVars>>

---------------------------------------------------------------------------
(* JavaScript values *)

NULL == <<>>
NaN == <<0, 0>>
Num(n) == <<n, 1>>
Frac(n, d) == <<n, d>>

\* typeof x === 'number'
IsNumber(x) == x # NULL
\* typeof x === 'number' && isFinite(x)
IsFiniteNumber(x) == x # NULL /\ x[2] > 0

\* Number(x) || 0 on a missing or whole-number field
NumberOrZero(x) == IF x = NULL \/ x[2] = 0 THEN 0 ELSE x[1] \div x[2]

\* a / b as a number (b # 0)
Div(a, b) == IF b > 0 THEN <<a, b>> ELSE <<-a, -b>>

\* x = y on numbers
NumEq(x, y) ==
    /\ x # NULL /\ y # NULL /\ x[2] > 0 /\ y[2] > 0
    /\ x[1] * y[2] = y[1] * x[2]

RECURSIVE SumSeq(_)
SumSeq(s) == IF s = <<>> THEN 0 ELSE s[1] + SumSeq(Tail(s))

\* x >= a/b, x > a/b, x < a/b on numbers (false on NaN), b > 0
Ge(x, a, b) == x[2] > 0 /\ x[1] * b >= a * x[2]
Gt(x, a, b) == x[2] > 0 /\ x[1] * b > a * x[2]
Lt(x, a, b) == x[2] > 0 /\ x[1] * b < a * x[2]

---------------------------------------------------------------------------
(* computeHealthVerdict *)

BaseScore == 50
SafeThreshold == 70
UnsafeThreshold == 40

Bump(acc, delta, reason) ==
    [score |-> acc.score + delta, reasons |-> Append(acc.reasons, reason)]

VolRule(acc, volToMc) ==
    IF IsFiniteNumber(volToMc)
    THEN IF Ge(volToMc, 1, 1) THEN Bump(acc, 20, "volume/mc strong")
         ELSE IF Ge(volToMc, 1, 5) THEN Bump(acc, 5, "volume/mc moderate")
         ELSE Bump(acc, -20, "volume/mc weak")
    ELSE acc

LpRule(acc, lpLockedPct) ==
    IF IsNumber(lpLockedPct)
    THEN IF Ge(lpLockedPct, 75, 1) THEN Bump(acc, 15, "LP locked high")
         ELSE IF Lt(lpLockedPct, 25, 1) THEN Bump(acc, -15, "LP lock low")
         ELSE acc
    ELSE acc

TxRule(acc, tx24) ==
    IF IsFiniteNumber(tx24)
    THEN IF Ge(tx24, 1000, 1) THEN Bump(acc, 5, "tx active")
         ELSE IF Lt(tx24, 50, 1) THEN Bump(acc, -5, "tx low")
         ELSE acc
    ELSE acc

\* mutation: dumping is tested on the size of the change, not on its sign
PriceChangeRuleAbs(acc, priceCh24) ==
    IF IsFiniteNumber(priceCh24)
    THEN LET a1 == IF Gt(priceCh24, 400, 1)
                   THEN Bump(acc, -10, "extreme pump") ELSE acc
         IN  IF Lt(priceCh24, -60, 1) \/ Gt(priceCh24, 60, 1)
             THEN Bump(a1, -10, "dumping") ELSE a1
    ELSE acc

PriceChangeRule(acc, priceCh24) ==
    IF IsFiniteNumber(priceCh24)
    THEN LET a1 == IF Gt(priceCh24, 400, 1)
                   THEN Bump(acc, -10, "extreme pump") ELSE acc
         IN  IF Lt(priceCh24, -60, 1) THEN Bump(a1, -10, "dumping") ELSE a1
    ELSE acc

\* mutation: the 'safe' adjustment is made without recording its reason
DexLabelRuleNoReason(acc, dexLabel) ==
    LET a1 == IF dexLabel = "safe"
              THEN [score |-> acc.score + 5, reasons |-> acc.reasons] ELSE acc
    IN  IF dexLabel = "danger" THEN Bump(a1, -10, "dex risk: danger") ELSE a1

DexLabelRule(acc, dexLabel) ==
    LET a1 == IF dexLabel = "safe" THEN Bump(acc, 5, "dex risk: safe") ELSE acc
    IN  IF dexLabel = "danger" THEN Bump(a1, -10, "dex risk: danger") ELSE a1

\* mutation: the age and market-cap thresholds are inclusive
AgeMcRuleInclusive(acc, ageMin, mc) ==
    IF IsNumber(ageMin) /\ Ge(ageMin, 50, 1)
       /\ IsNumber(mc) /\ IsFiniteNumber(mc)
       /\ ~Gt(mc, 20000, 1)
    THEN Bump(acc, -10, "age>50m & mc<20k")
    ELSE acc

AgeMcRule(acc, ageMin, mc) ==
    IF IsNumber(ageMin) /\ Gt(ageMin, 50, 1)
       /\ IsNumber(mc) /\ IsFiniteNumber(mc)
       /\ Lt(mc, 20000, 1)
    THEN Bump(acc, -10, "age>50m & mc<20k")
    ELSE acc

\* mutation: the dex-risk rule is evaluated before the price-change rule
HealthScoreReordered(p) ==
    LET a0 == [score |-> BaseScore, reasons |-> <<>>]
        a1 == VolRule(a0, p.volToMc)
        a2 == LpRule(a1, p.lpLockedPct)
        a3 == TxRule(a2, p.tx24)
        a4 == DexLabelRule(a3, p.dexLabel)
        a5 == PriceChangeRule(a4, p.priceCh24)
    IN  AgeMcRule(a5, p.ageMin, p.marketCap)

\* the score and the reasons after the last rule (lines 1233-1266)
HealthScore(p) ==
    LET a0 == [score |-> BaseScore, reasons |-> <<>>]
        a1 == VolRule(a0, p.volToMc)
        a2 == LpRule(a1, p.lpLockedPct)
        a3 == TxRule(a2, p.tx24)
        a4 == PriceChangeRule(a3, p.priceCh24)
        a5 == DexLabelRule(a4, p.dexLabel)
    IN  AgeMcRule(a5, p.ageMin, p.marketCap)

\* mutation: the thresholds are exclusive
VerdictLabelExclusive(score) ==
    IF score > SafeThreshold THEN "SAFE"
    ELSE IF score < UnsafeThreshold THEN "UNSAFE"
    ELSE "RISKY"

VerdictLabel(score) ==
    IF score >= SafeThreshold THEN "SAFE"
    ELSE IF score <= UnsafeThreshold THEN "UNSAFE"
    ELSE "RISKY"

computeHealthVerdict(p) ==
    LET a == HealthScore(p)
    IN  [label |-> VerdictLabel(a.score), reasons |-> a.reasons]

\* the signals the scanner can hand to computeHealthVerdict
VolToMcVals == {NULL, NaN, Frac(1, 10), Frac(1, 5), Num(1), Frac(3, 2)}
LpLockedVals == {NULL, Num(10), Num(24), Num(25), Num(75), Num(80)}
Tx24Vals == {NULL, NaN, Num(10), Num(50), Num(999), Num(1000), Num(1200)}
PriceChVals == {NULL, Num(-61), Num(-60), Num(5), Num(400), Num(401), Num(500)}
DexLabels == {"undefined", "safe", "caution", "danger", "unknown"}
AgeMinVals == {NULL, Num(50), Num(51), Num(60)}
MarketCapVals == {NULL, NaN, Num(10000), Num(19999), Num(20000)}

HealthParams ==
    [volToMc : VolToMcVals, lpLockedPct : LpLockedVals, tx24 : Tx24Vals,
     priceCh24 : PriceChVals, dexLabel : DexLabels, ageMin : AgeMinVals,
     marketCap : MarketCapVals]

\* before any scan every signal is missing
NoSignals ==
    [volToMc |-> NULL, lpLockedPct |-> NULL, tx24 |-> NULL, priceCh24 |-> NULL,
     dexLabel |-> "undefined", ageMin |-> NULL, marketCap |-> NULL]

\* no verdict has been computed for params yet
NoVerdict == [label |-> "pending", reasons |-> <<>>]

---------------------------------------------------------------------------
(* App.tsx: groupedActivity *)

MaxHist == 3

Mints == {"mintA", "mintB"}
Sides == {"buy", "sell"}
TsVals == {1, 2, 3}
\* price, qty, value and fee of an executed trade
Trades ==
    {[price |-> 2, qty |-> 10, value |-> 20, fee |-> NULL],
     [price |-> 3, qty |-> 10, value |-> 30, fee |-> NULL],
     [price |-> 3, qty |-> 5, value |-> 15, fee |-> Num(1)]}

HistoryItem(id, ts, side, mint, t) ==
    [id |-> id, ts |-> ts, side |-> side, mint |-> mint, price |-> t.price,
     qty |-> t.qty, value |-> t.value, fee |-> t.fee]

\* map.get(h.mint): the position of the group of mint in insertion order, 0 if none
GroupIndex(gs, mint) ==
    IF \E k \in 1..Len(gs) : gs[k].mint = mint
    THEN CHOOSE k \in 1..Len(gs) : gs[k].mint = mint
    ELSE 0

NewGroup(h) ==
    [mint |-> h.mint, buys |-> <<>>, sells |-> <<>>, lastTs |-> h.ts,
     totalBuyQty |-> 0, totalSellQty |-> 0, lastAction |-> h.side]

\* mutation: every entry is filed under buys
PushEntryAllBuys(g, h) == [g EXCEPT !.buys = Append(g.buys, h)]

\* if (h.side === 'buy') g.buys.push(h); else g.sells.push(h)
PushEntry(g, h) ==
    IF h.side = "buy" THEN [g EXCEPT !.buys = Append(g.buys, h)]
    ELSE [g EXCEPT !.sells = Append(g.sells, h)]

\* if (h.ts > g.lastTs) g.lastTs = h.ts
BumpLastTs(g, h) == IF h.ts > g.lastTs THEN [g EXCEPT !.lastTs = h.ts] ELSE g

AddQty(g, h) ==
    IF h.side = "buy"
    THEN [g EXCEPT !.totalBuyQty = g.totalBuyQty + NumberOrZero(Num(h.qty))]
    ELSE [g EXCEPT !.totalSellQty = g.totalSellQty + NumberOrZero(Num(h.qty))]

SetLastAction(g, h) ==
    [g EXCEPT !.lastAction = IF h.ts >= g.lastTs THEN h.side ELSE g.lastAction]

\* one iteration of the loop over hist (lines 398-410)
GroupStep(gs, h) ==
    LET k == GroupIndex(gs, h.mint)
        g0 == IF k = 0 THEN NewGroup(h) ELSE gs[k]
        g == SetLastAction(AddQty(BumpLastTs(PushEntry(g0, h), h), h), h)
    IN  IF k = 0 THEN Append(gs, g) ELSE [gs EXCEPT ![k] = g]

RECURSIVE GroupAll(_, _)
GroupAll(gs, hist) ==
    IF hist = <<>> THEN gs ELSE GroupAll(GroupStep(gs, Head(hist)), Tail(hist))

Values(xs) == [i \in 1..Len(xs) |-> NumberOrZero(Num(xs[i].value))]
Fees(xs) == [i \in 1..Len(xs) |-> NumberOrZero(xs[i].fee)]
Qtys(xs) == [i \in 1..Len(xs) |-> NumberOrZero(Num(xs[i].qty))]
PriceQtys(xs) ==
    [i \in 1..Len(xs) |->
        NumberOrZero(Num(xs[i].price)) * NumberOrZero(Num(xs[i].qty))]

\* mutation: only the fees of the buys are counted
GroupFeesBuysOnly(g) == SumSeq(Fees(g.buys))

\* [...g.buys, ...g.sells].reduce((a, x) => a + (Number(x.fee) || 0), 0)
GroupFees(g) == SumSeq(Fees(g.buys \o g.sells))

\* mutation: the plain average of the prices
WeightedPriceUnweighted(xs) ==
    IF SumSeq(Qtys(xs)) <= 0 THEN NULL
    ELSE Div(SumSeq([i \in 1..Len(xs) |-> xs[i].price]), Len(xs))

\* buyWeightedPrice / sellWeightedPrice (lines 417-428)
WeightedPrice(xs) ==
    LET totalQty == SumSeq(Qtys(xs))
    IN  IF totalQty <= 0 THEN NULL
        ELSE Div(SumSeq(PriceQtys(xs)), totalQty)

\* xs.slice().sort((a, b) => b.ts - a.ts)[0]: the first of the newest entries
MostRecent(xs) ==
    IF xs = <<>> THEN NULL
    ELSE LET i == CHOOSE i \in 1..Len(xs) :
                    /\ \A j \in 1..Len(xs) : xs[j].ts <= xs[i].ts
                    /\ \A j \in 1..(i - 1) : xs[j].ts < xs[i].ts
         IN  <<xs[i]>>

\* the summary of one group (lines 411-432)
Summary(g) ==
    LET buyCost == SumSeq(Values(g.buys))
        sellProceeds == SumSeq(Values(g.sells))
        fees == GroupFees(g)
        pnl == sellProceeds - buyCost - fees
    IN  [mint |-> g.mint, buys |-> g.buys, sells |-> g.sells,
         lastTs |-> g.lastTs, totalBuyQty |-> g.totalBuyQty,
         totalSellQty |-> g.totalSellQty, lastAction |-> g.lastAction,
         buyCost |-> buyCost, sellProceeds |-> sellProceeds, fees |-> fees,
         pnl |-> pnl,
         pnlPct |-> IF buyCost > 0 THEN Div(pnl * 100, buyCost) ELSE NULL,
         buyWeightedPrice |-> WeightedPrice(g.buys),
         sellWeightedPrice |-> WeightedPrice(g.sells),
         lastBuy |-> MostRecent(g.buys), lastSell |-> MostRecent(g.sells)]

\* insertion of x into a sequence sorted by cmp, after its equals (stable)
RECURSIVE InsertDesc(_, _)
InsertDesc(sorted, x) ==
    IF sorted = <<>> THEN <<x>>
    ELSE IF Head(sorted).lastTs - x.lastTs < 0
         THEN <<x>> \o sorted
         ELSE <<Head(sorted)>> \o InsertDesc(Tail(sorted), x)

RECURSIVE InsertAsc(_, _)
InsertAsc(sorted, x) ==
    IF sorted = <<>> THEN <<x>>
    ELSE IF x.lastTs - Head(sorted).lastTs < 0
         THEN <<x>> \o sorted
         ELSE <<Head(sorted)>> \o InsertAsc(Tail(sorted), x)

RECURSIVE SortWith(_, _, _)
SortWith(asc, sorted, items) ==
    IF items = <<>> THEN sorted
    ELSE SortWith(asc,
                  IF asc THEN InsertAsc(sorted, Head(items))
                  ELSE InsertDesc(sorted, Head(items)),
                  Tail(items))

\* mutation: the comparator is a.lastTs - b.lastTs
SortByLastTsAsc(items) == SortWith(TRUE, <<>>, items)

\* items.sort((a, b) => b.lastTs - a.lastTs)
SortByLastTs(items) == SortWith(FALSE, <<>>, items)

\* Array.prototype.sort orders its receiver in place, by b.ts - a.ts
RECURSIVE InsertByTsDesc(_, _)
InsertByTsDesc(sorted, x) ==
    IF sorted = <<>> THEN <<x>>
    ELSE IF Head(sorted).ts - x.ts < 0
         THEN <<x>> \o sorted
         ELSE <<Head(sorted)>> \o InsertByTsDesc(Tail(sorted), x)

RECURSIVE SortByTsDesc(_, _)
SortByTsDesc(sorted, xs) ==
    IF xs = <<>> THEN sorted
    ELSE SortByTsDesc(InsertByTsDesc(sorted, Head(xs)), Tail(xs))

\* mutation: the most recent entries are found by sorting hist itself
HistAfterMemoSorted(hist) == SortByTsDesc(<<>>, hist)

\* The array of the state after the memo has run on it.  The memo calls a
\* mutating method only on arrays it has created: push on the buys and sells
\* of a group (lines 399-400), sort on their slice() copies (lines 428-429)
\* and on items (line 433).  hist is only iterated (line 398) and its
\* entries are only read.
HistAfterMemo(hist) == hist

GroupedActivity(hist) ==
    LET gs == GroupAll(<<>>, hist)
    IN  SortByLastTs([k \in 1..Len(gs) |-> Summary(gs[k])])

\* state is null until the first snapshot: hist = [], no summaries

\* history.filter(h => h.side === side)
OfSide(hist, side) == SelectSeq(hist, LAMBDA h : h.side = side)

\* the buyCost memo (lines 365-367)
AppBuyCost(hist) == SumSeq(Values(OfSide(hist, "buy")))

\* mutation: the sell filter is forgotten
AppSellProceedsUnfiltered(hist) == SumSeq(Values(hist))

\* the sellProceeds memo (lines 368-370)
AppSellProceeds(hist) == SumSeq(Values(OfSide(hist, "sell")))

\* the totalFees memo (lines 371-373)
AppTotalFees(hist) == SumSeq(Fees(hist))

\* the profile aggregates of App, with the realizedPnL memo (lines 374-376)
Profile(hist) ==
    [buyCost |-> AppBuyCost(hist), sellProceeds |-> AppSellProceeds(hist),
     totalFees |-> AppTotalFees(hist),
     realizedPnL |->
        AppSellProceeds(hist) - AppBuyCost(hist) - AppTotalFees(hist)]

\* App.refresh is called at most MaxRefresh times, and the collaborator
\* applies at most MaxRev changes
MaxRefresh == 3
MaxRev == 2

\* a call of refresh: not made, awaiting the collaborator, answered with a
\* snapshot that has not arrived, done, or failed
NotCalled == [pc |-> "none", snap |-> NULL]

\* what /api/state answers when the collaborator has applied rev changes
SnapshotAt(rev) == [rev |-> rev]

---------------------------------------------------------------------------
(* MemeScanner: the address input, supply, priceUsd, marketCap, sticky values *)

MinMintLen == 32
MaxMintLen == 44
NoReportSupply == 999999999
DefaultSupply == 1000000000

\* [1-9A-HJ-NP-Za-km-z]
Base58 ==
    {"1", "2", "3", "4", "5", "6", "7", "8", "9",
     "A", "B", "C", "D", "E", "F", "G", "H", "J", "K", "L", "M", "N",
     "P", "Q", "R", "S", "T", "U", "V", "W", "X", "Y", "Z",
     "a", "b", "c", "d", "e", "f", "g", "h", "i", "j", "k",
     "m", "n", "o", "p", "q", "r", "s", "t", "u", "v", "w", "x", "y", "z"}

WhiteSpace == {" ", "\t", "\n"}

RECURSIVE TrimStart(_)
TrimStart(s) ==
    IF s # <<>> /\ Head(s) \in WhiteSpace THEN TrimStart(Tail(s)) ELSE s

RECURSIVE TrimEnd(_)
TrimEnd(s) ==
    IF s # <<>> /\ s[Len(s)] \in WhiteSpace
    THEN TrimEnd(SubSeq(s, 1, Len(s) - 1)) ELSE s

\* String.prototype.trim
Trim(s) == TrimEnd(TrimStart(s))

\* mutation: the length is tested, the alphabet is not
isValidMintLengthOnly(m) ==
    LET s == Trim(m)
    IN  Len(s) >= MinMintLen /\ Len(s) <= MaxMintLen

isValidMint(m) ==
    LET s == Trim(m)
    IN  /\ Len(s) >= MinMintLen
        /\ Len(s) <= MaxMintLen
        /\ \A i \in 1..Len(s) : s[i] \in Base58

Chars(c, n) == [i \in 1..n |-> c]

\* texts a user can type or paste
InputTexts ==
    {<<>>, <<" ">>,
     Chars("A", 32), Chars("b", 44),
     <<" ">> \o Chars("A", 32) \o <<" ">>,
     Chars("A", 31), Chars("b", 45),
     Chars("A", 31) \o <<"0">>}

\* what /api/scan/report answers: token may be absent, supply missing, not
\* finite or not positive; the divisions of the model's reports are exact
Reports ==
    {[token |-> NULL],
     [token |-> [supply |-> Num(1000000), decimals |-> Num(3)]],
     [token |-> [supply |-> Num(2000), decimals |-> NULL]],
     [token |-> [supply |-> NULL, decimals |-> Num(6)]],
     [token |-> [supply |-> NaN, decimals |-> Num(6)]],
     [token |-> [supply |-> Num(0), decimals |-> Num(6)]]}

\* what fetchPrice resolves to: price is a number or null (lines 1184-1188)
PriceResponses ==
    {[price |-> NULL, isFallback |-> FALSE],
     [price |-> Num(5), isFallback |-> FALSE],
     [price |-> Num(7), isFallback |-> FALSE],
     [price |-> Num(7), isFallback |-> TRUE]}

\* a number n/d with d dividing n, as a whole number
Whole(x) == IF x[2] > 0 /\ x[1] % x[2] = 0 THEN Num(x[1] \div x[2]) ELSE x

\* the supply memo (lines 1526-1533)
Supply(rep) ==
    IF rep = NULL \/ rep.token = NULL THEN Num(NoReportSupply)
    ELSE LET d == IF rep.token.decimals = NULL THEN 0
                  ELSE rep.token.decimals[1]
             raw == rep.token.supply
             computed == IF IsFiniteNumber(raw)
                         THEN Whole(Div(raw[1], 10 ^ d)) ELSE NULL
         IN  IF computed # NULL /\ IsFiniteNumber(computed) /\ Gt(computed, 0, 1)
             THEN computed ELSE Num(DefaultSupply)

\* the priceUsd memo (lines 1535-1539)
PriceUsd(resp) ==
    IF resp # NULL /\ resp.isFallback THEN NULL
    ELSE LET p == IF resp = NULL THEN NULL ELSE resp.price
         IN  IF IsNumber(p) THEN p ELSE NULL

\* A market cap is a product of whole numbers that can exceed 2^31: it is
\* kept exactly, as <<q, r>> for q * 10^5 + r with 0 <= r < 10^5.
Limb == 10 ^ 5

\* p * s
Times(p, s) ==
    LET r == (s % Limb) * p
        q == (s \div Limb) * p
    IN  <<q + (r \div Limb), r % Limb>>

\* mutation: a missing price counts as 0
MarketCapNullAsZero(price, sup) ==
    IF sup = NULL THEN NULL
    ELSE Times(IF price = NULL THEN 0 ELSE price[1], sup[1])

\* the marketCap memo (lines 1541-1544)
MarketCap(price, sup) ==
    IF price = NULL \/ sup = NULL THEN NULL
    ELSE Times(price[1], sup[1])

\* Number(x.toFixed(2)) of a whole number
ToFixed2(w) == w

\* mutation: the stable price follows the live price, null included
StablePriceAlways(price, stable) == price

\* the effect of lines 1637-1639
StablePrice(price, stable) ==
    IF IsNumber(price) /\ IsFiniteNumber(price) THEN price ELSE stable

\* the effect of lines 1641-1643
StableSupply(sup, stable) ==
    IF IsNumber(sup) /\ IsFiniteNumber(sup) /\ Gt(sup, 0, 1) THEN sup
    ELSE stable

\* mutation: without the else branch, the stable market cap only follows the
\* live one
StableMarketCapLiveOnly(mc, pStable, sStable, stable) ==
    IF mc # NULL THEN mc ELSE stable

\* the effect of lines 1645-1651, with the stable values of the render it
\* closes over
StableMarketCap(mc, pStable, sStable, stable) ==
    IF mc # NULL THEN mc
    ELSE IF pStable # NULL /\ sStable # NULL
         THEN ToFixed2(Times(pStable[1], sStable[1]))
         ELSE stable

\* one render and its effects: the three set-states are batched
EffectPass(st) ==
    [st EXCEPT
        !.priceUsdStable = StablePrice(st.priceUsd, st.priceUsdStable),
        !.supplyStable = StableSupply(st.supply, st.supplyStable),
        !.marketCapStable =
            StableMarketCap(st.marketCap, st.priceUsdStable, st.supplyStable,
                            st.marketCapStable)]

\* the component after it has rendered rep and resp and its effects have
\* settled: the second pass is the re-render the first pass's set-states cause
Rendered(rep, resp, pStable, sStable, mStable) ==
    LET sup == Supply(rep)
        price == PriceUsd(resp)
        st == [supply |-> sup, priceUsd |-> price,
               marketCap |-> MarketCap(price, sup),
               priceUsdStable |-> pStable, supplyStable |-> sStable,
               marketCapStable |-> mStable]
    IN  EffectPass(EffectPass(st))

\* what the Price card shows (line 1852)
DisplayedPrice == IF priceUsdStable # NULL THEN priceUsdStable ELSE priceUsd

\* what the Market Cap card shows (line 1856)
DisplayedMarketCap ==
    IF marketCapStable # NULL THEN marketCapStable ELSE marketCap

\* what the Supply card shows (line 1860)
DisplayedSupply == IF supplyStable # NULL THEN supplyStable ELSE supply

\* history: no response has arrived and no sticky value is set
NothingObserved ==
    [resp |-> NULL, rep |-> NULL, price |-> NULL, supply |-> NULL, cap |-> {}]

\* history: the addresses behind the values after a render of rep, fetched
\* for repFor, and resp, fetched for respFor.  The sticky price is replaced
\* by a finite live price (line 1638), the sticky supply by every supply the
\* memo yields from a report (line 1642), the sticky market cap by the live
\* product or else by the product of the sticky values (lines 1646-1649)
Provenance(rep, resp, repFor, respFor, old) ==
    LET live == IsFiniteNumber(PriceUsd(resp))
        priceFor == IF live THEN respFor ELSE old.price
        supplyFor == IF rep = NULL THEN NULL ELSE repFor
    IN  [resp |-> respFor, rep |-> repFor, price |-> priceFor,
         supply |-> supplyFor,
         cap |-> IF live \/ old.price # NULL THEN {priceFor, supplyFor}
                 ELSE old.cap]
---------------------------------------------------------------------------
(* PortfolioAnalyzer: realizedPnL and timeframeStats.  Time is counted in  *)
(* hours: 3600_000 ms is 1.                                                *)

MaxLedger == 2

Timeframes == {"all", "7d", "24h", "12h", "6h", "1h"}
\* Date.now() when the timeframeStats memo is evaluated
NowVals == {168, 169}
\* timestamps of trades: the epoch, and around the window starts
LedgerTs == {0, 167, 168}

\* an error message that is null or undefined
NoError == ""

\* the body of a successful answer of /api/state: the snapshot
Snapshot(hist) == [history |-> hist, error |-> NoError]

\* the body of a failed answer: { error: ... }, without a history
ErrorBody == [history |-> NULL, error |-> "server error"]

\* What fetch('/api/state') can resolve to: <<>> when fetch itself rejects
\* (the collaborator is unreachable), else a response with its status and
\* the JSON of its body, json = <<>> when the body is not JSON.
StateResponses(hist) ==
    {NULL,
     [ok |-> TRUE, json |-> Snapshot(hist), statusText |-> "OK"],
     [ok |-> FALSE, json |-> ErrorBody, statusText |-> "Server Error"],
     [ok |-> FALSE, json |-> NULL, statusText |-> "Server Error"]}

\* data?.history || []
HistoryOf(d) == IF d = NULL \/ d.history = NULL THEN <<>> ELSE d.history

\* mutation: every timeframe is the unbounded window
WindowStartUnbounded(tf, t) == 0

\* const start = ... (lines 132-141)
WindowStart(tf, t) ==
    CASE tf = "1h" -> t - 1
      [] tf = "6h" -> t - 6
      [] tf = "12h" -> t - 12
      [] tf = "24h" -> t - 24
      [] tf = "7d" -> t - 7 * 24
      [] OTHER -> 0

\* mutation: an entry at the window start is left out
InWindowExclusive(h, start) == h.ts > start

\* if (h.ts >= start)
InWindow(h, start) == h.ts >= start

\* the loop of lines 142-149
RECURSIVE WindowTotals(_, _, _)
WindowTotals(acc, hist, start) ==
    IF hist = <<>> THEN acc
    ELSE LET h == Head(hist)
             next ==
                 IF InWindow(h, start)
                 THEN [buys |-> acc.buys + (IF h.side = "buy"
                                            THEN NumberOrZero(Num(h.value)) ELSE 0),
                       sells |-> acc.sells + (IF h.side = "sell"
                                              THEN NumberOrZero(Num(h.value)) ELSE 0),
                       fees |-> acc.fees + NumberOrZero(h.fee)]
                 ELSE acc
         IN  WindowTotals(next, Tail(hist), start)

\* the timeframeStats memo (lines 129-153)
TimeframeStats(hist, tf, t) ==
    LET tot == WindowTotals([buys |-> 0, sells |-> 0, fees |-> 0], hist,
                            WindowStart(tf, t))
        pnl == tot.sells - tot.buys - tot.fees
    IN  [pnl |-> pnl,
         roi |-> IF tot.buys > 0 THEN Div(pnl * 100, tot.buys) ELSE NULL]

IsBuy(h) == h.side = "buy"
IsSell(h) == h.side = "sell"

\* the buyCost, sellProceeds, totalFees and realizedPnL memos (lines 114-121)
RealizedPnL(hist) ==
    LET buyCost == SumSeq(Values(SelectSeq(hist, IsBuy)))
        sellProceeds == SumSeq(Values(SelectSeq(hist, IsSell)))
        totalFees == SumSeq(Fees(hist))
    IN  sellProceeds - buyCost - totalFees

\* request of the api client (lines 2010-2015): the parsed body, null when
\* it is not JSON, is returned for a success status; any other status
\* throws, with the body's error as the message if it has one.  A rejection
\* of fetch is a rejection of request.
Request(res) ==
    IF res = NULL THEN [threw |-> TRUE, value |-> "Failed to fetch"]
    ELSE IF ~res.ok
         THEN [threw |-> TRUE,
               value |-> IF res.json = NULL \/ res.json.error = NoError
                         THEN res.statusText ELSE res.json.error]
         ELSE [threw |-> FALSE, value |-> res.json]

\* fetchRugReport, fetchPrice, fetchDex (lines 1166-1197): a status other
\* than success throws before the body is read
ScanFetch(res) ==
    IF res = NULL THEN [threw |-> TRUE, value |-> "Failed to fetch"]
    ELSE IF ~res.ok THEN [threw |-> TRUE, value |-> "status"]
    ELSE IF res.json = NULL THEN [threw |-> TRUE, value |-> "SyntaxError"]
    ELSE [threw |-> FALSE, value |-> res.json]

---------------------------------------------------------------------------
(* TradePanel: the position metrics.  Prices, quantities and market caps   *)
(* are whole numbers; a quotient is kept as an exact fraction.             *)

\* !x of a number or null: null, NaN and 0 are falsy
Falsy(x) == x = NULL \/ x[2] = 0 \/ x[1] = 0

\* data?.positions?.[mint]
Pos(d) == IF d = NULL THEN NULL ELSE d.position

\* pos?.qty ?? 0
QtyHeld(d) == IF Pos(d) = NULL THEN Num(0) ELSE Pos(d).qty

\* pos?.avgPrice ?? 0
AvgPrice(d) == IF Pos(d) = NULL THEN Num(0) ELSE Pos(d).avgPrice

\* data?.user?.balance ?? 0
Balance(d) == IF d = NULL THEN Num(0) ELSE d.balance

\* the pnl memo (lines 44-47)
Pnl(price, avg, qty) ==
    IF Falsy(price) \/ Falsy(qty) THEN Num(0)
    ELSE Num((price[1] - avg[1]) * qty[1])

\* the pnlPct memo (lines 65-69)
PnlPct(price, avg, qty) ==
    IF Falsy(qty) \/ Falsy(price) \/ Falsy(avg) THEN NULL
    ELSE IF ~Gt(avg, 0, 1) THEN NULL
    ELSE Div((price[1] - avg[1]) * 100, avg[1])

\* mutation: the operands are tested against null only
EstBoughtMCapNullTests(mc, avg, price) ==
    IF mc = NULL \/ avg = NULL \/ price = NULL THEN NULL
    ELSE Div(mc[1] * avg[1], price[1])

\* the estBoughtMCap memo (lines 72-75)
EstBoughtMCap(mc, avg, price) ==
    IF mc = NULL \/ Falsy(avg) \/ Falsy(price) \/ NumEq(price, Num(0))
    THEN NULL
    ELSE Div(mc[1] * avg[1], price[1])

\* positionsWithPnl of PortfolioAnalyzer: the pnlPct of a position whose last
\* known price is last (lines 171-172)
PositionPnlPct(last, avg) ==
    IF IsNumber(last) /\ Gt(avg, 0, 1)
    THEN Div((last[1] - avg[1]) * 100, avg[1])
    ELSE NULL

\* what /api/state answers about the panel's token: no position, or a
\* position of a quantity at an average entry price; and the balance
Positions ==
    {NULL} \cup [qty : {Num(0), Num(10)}, avgPrice : {Num(2), Num(5)}]
StateSnapshots == [position : Positions, balance : {Num(0), Num(100)}]

\* the props MemeScanner hands over: (priceUsdStable ?? priceUsd) ?? null and
\* (marketCapStable ?? marketCap) ?? null
CurrentPrices == {NULL, Num(0), Num(1), Num(4)}
MarketCapProps == {NULL, Num(0), Num(1000)}

\* x * y, x / y, x + y and x <= y on finite numbers kept as fractions
Prod(x, y) == <<x[1] * y[1], x[2] * y[2]>>
Quot(x, y) == Div(x[1] * y[2], x[2] * y[1])
Plus(x, y) == <<x[1] * y[2] + y[1] * x[2], x[2] * y[2]>>
Le(x, y) == x[1] * y[2] <= y[1] * x[2]

\* the mint prop: MemeScanner hands over searchedMint!, a caller can hand
\* over the empty string
NoMint == ""
TokenMint == "So1"
MintProps == {NoMint, TokenMint}

\* busy === null
NotBusy == "null"

\* currentPrice ?? 0 (line 51)
effPrice(p) == IF p = NULL THEN Num(0) ELSE p

TX_FEE == Frac(35, 100)

\* effPrice ? (usd || 0) / effPrice : 0 (line 54)
effectiveQty(u, ep) ==
    IF Falsy(ep) THEN Num(0) ELSE Quot(IF Falsy(u) THEN Num(0) ELSE u, ep)

\* effPrice && effectiveQty ? effPrice * effectiveQty : 0 (line 55)
totalCost(ep, q) == IF Falsy(ep) \/ Falsy(q) THEN Num(0) ELSE Prod(ep, q)

\* totalCost + (totalCost > 0 ? TX_FEE : 0) (line 56)
grandTotal(tc) == Plus(tc, IF Gt(tc, 0, 1) THEN TX_FEE ELSE Num(0))

\* line 61
canBuy(m, p, u, bal) ==
    LET ep == effPrice(p)
        q == effectiveQty(u, ep)
    IN  /\ m # NoMint
        /\ Gt(ep, 0, 1)
        /\ Gt(q, 0, 1)
        /\ Le(totalCost(ep, q), bal)

\* line 62
canSell(qty, p) == Gt(qty, 0, 1) /\ ~Falsy(p)

\* the payload of api.buy (line 82); marketCap ?? undefined leaves the
\* field out of the JSON when the prop is null
BuyRequest(m, p, u, mc) ==
    [mint |-> m, price |-> effPrice(p),
     qty |-> effectiveQty(u, effPrice(p)), marketCap |-> mc]

\* mutation: the sell payload names the held quantity
SellRequestWithQty(m, p, mc, held) ==
    [mint |-> m, price |-> p, marketCap |-> mc, qty |-> held]

\* the payload of api.sell (line 98): no qty, the collaborator sells all
SellRequest(m, p, mc, held) == [mint |-> m, price |-> p, marketCap |-> mc]

\* what /api/state tells the panel while orders are placed
OrderSnapshots ==
    {d \in StateSnapshots :
        d.position \in {NULL, [qty |-> Num(10), avgPrice |-> Num(2)]}}

\* the prices handed over while orders are placed
OrderPrices == {NULL, Num(0), Num(4)}

\* amounts typed into the USD field
UsdAmounts == {Num(0), Num(50), Num(100)}

\* the percent chips of the model (line 205 has 1, 2, 5, 10, 20, 25, 50)
PercentChips == {Num(50)}

\* the awaits of a handler: the trade request, then api.getState()
Handlers == {"buy", "sell"}
Awaits == {"trade", "refresh"}
Stages == Handlers \X Awaits

\* the number of handler calls that await an answer
RECURSIVE CountIn(_, _)
CountIn(p, S) ==
    IF S = {} THEN 0
    ELSE LET s == CHOOSE x \in S : TRUE IN p[s] + CountIn(p, S \ {s})
InFlight(p) == CountIn(p, Stages)

\* what /api/buy, /api/sell and /api/state can answer a handler: a fetch
\* that rejects, a success with the snapshot d, a refusal with an error
\* body, a refusal with no body and an empty statusText
OrderResponses(d) ==
    {NULL,
     [ok |-> TRUE, json |-> d, statusText |-> "OK"],
     [ok |-> FALSE, json |-> [error |-> "Insufficient balance"],
      statusText |-> "Bad Request"],
     [ok |-> FALSE, json |-> NULL, statusText |-> ""]}

\* mutation: the message as it is, empty or not
MessageAsIs(message, fallback) == message

\* e?.message || fallback (lines 88 and 102)
MessageOr(message, fallback) == IF message = "" THEN fallback ELSE message

---------------------------------------------------------------------------
(* The components as they mount *)

\* computeHealthVerdict has not been called
HealthMount ==
    /\ params = NoSignals
    /\ health = NoVerdict

\* state is null until the first snapshot: hist = [], no summaries
ActivityMount ==
    /\ snapshot = <<>>
    /\ history = <<>>
    /\ groupedActivity = <<>>
    /\ profile = Profile(<<>>)
    /\ serverRev = 0
    /\ refreshCalls = [n \in 1..MaxRefresh |-> NotCalled]
    /\ appState = NULL
    /\ appLoading = FALSE
    /\ appError = NoError
    /\ installedBy = 0

\* MemeScanner with mint = DEFAULT_MINT = '': nothing scanned, no data; the
\* supply memo is the no-report value and its effect has stored it
ScannerMount ==
    LET st == Rendered(NULL, NULL, NULL, NULL, NULL) IN
    /\ inputMint = <<>>
    /\ searchedMint = NULL
    /\ report = NULL
    /\ priceResp = NULL
    /\ supply = st.supply
    /\ priceUsd = st.priceUsd
    /\ marketCap = st.marketCap
    /\ priceUsdStable = st.priceUsdStable
    /\ supplyStable = st.supplyStable
    /\ marketCapStable = st.marketCapStable
    /\ lastValidPrice = NULL
    /\ lastValidMarketCap = NULL
    /\ observedFor = NothingObserved

\* Date.now() of the first render
MountTime == CHOOSE t \in NowVals : \A u \in NowVals : t <= u

\* PortfolioAnalyzer before the first poll answers: the effect has called
\* tick, which has set loading and awaits its fetch
AnalyzerMount ==
    /\ ledger = <<>>
    /\ data = NULL
    /\ analyzerError = NoError
    /\ pollAnswer = "none"
    /\ timeframe = "all"
    /\ now = MountTime
    /\ realizedPnL = RealizedPnL(HistoryOf(NULL))
    /\ timeframeStats = TimeframeStats(HistoryOf(NULL), "all", now)
    /\ mounted = TRUE
    /\ loading = TRUE
    /\ tickPc = "fetch"
    /\ tickRes = NULL
    /\ timer = 0
    /\ scheduled = {}

\* TradePanel before /api/state has answered, with no price and no market cap
TradeMount ==
    /\ stateData = NULL
    /\ currentPrice = NULL
    /\ mcapProp = NULL
    /\ tradePnl = Pnl(NULL, AvgPrice(NULL), QtyHeld(NULL))
    /\ tradePnlPct = PnlPct(NULL, AvgPrice(NULL), QtyHeld(NULL))
    /\ estBoughtMCap = EstBoughtMCap(NULL, AvgPrice(NULL), NULL)
    /\ mintProp = TokenMint
    /\ usd = Num(0)
    /\ selectedPct = NULL
    /\ actionError = NoError
    /\ busy = NotBusy
    /\ pending = [s \in Stages |-> 0]
    /\ lastStep = NULL

---------------------------------------------------------------------------
(* computeHealthVerdict: the specification *)

\* the inputs are drawn from the signal sets
HealthInit ==
    /\ params \in HealthParams
    /\ health = NoVerdict
    /\ ActivityMount
    /\ ScannerMount
    /\ AnalyzerMount
    /\ TradeMount

\* health = useMemo(() => computeHealthVerdict({...}), [...])
HealthRender ==
    /\ health = NoVerdict
    /\ health' = computeHealthVerdict(params)
    /\ UNCHANGED <<params, activityVars, scannerVars, analyzerVars, tradeVars>>

HealthNext == HealthRender

SpecHealth == HealthInit /\ [][HealthNext]_vars

---------------------------------------------------------------------------
(* The documented score (spec 4.1), written from the rule table *)

DocVolAdj(p) ==
    CASE ~IsFiniteNumber(p.volToMc) -> 0
      [] Ge(p.volToMc, 1, 1) -> 20
      [] Ge(p.volToMc, 2, 10) -> 5
      [] OTHER -> -20

DocLpAdj(p) ==
    CASE p.lpLockedPct = NULL -> 0
      [] Ge(p.lpLockedPct, 75, 1) -> 15
      [] Lt(p.lpLockedPct, 25, 1) -> -15
      [] OTHER -> 0

DocTxAdj(p) ==
    CASE ~IsFiniteNumber(p.tx24) -> 0
      [] Ge(p.tx24, 1000, 1) -> 5
      [] Lt(p.tx24, 50, 1) -> -5
      [] OTHER -> 0

DocPumpAdj(p) ==
    IF IsFiniteNumber(p.priceCh24) /\ Gt(p.priceCh24, 400, 1) THEN -10 ELSE 0

DocDumpAdj(p) ==
    IF IsFiniteNumber(p.priceCh24) /\ Lt(p.priceCh24, -60, 1) THEN -10 ELSE 0

DocRiskAdj(p) ==
    CASE p.dexLabel = "safe" -> 5
      [] p.dexLabel = "danger" -> -10
      [] OTHER -> 0

DocAgeMcAdj(p) ==
    IF /\ IsFiniteNumber(p.ageMin) /\ IsFiniteNumber(p.marketCap)
       /\ Gt(p.ageMin, 50, 1) /\ Lt(p.marketCap, 20000, 1)
    THEN -10 ELSE 0

\* the adjustment of rule k, in evaluation order
DocAdj(k, p) ==
    CASE k = 1 -> DocVolAdj(p)
      [] k = 2 -> DocLpAdj(p)
      [] k = 3 -> DocTxAdj(p)
      [] k = 4 -> DocPumpAdj(p)
      [] k = 5 -> DocDumpAdj(p)
      [] k = 6 -> DocRiskAdj(p)
      [] k = 7 -> DocAgeMcAdj(p)

DocScore(p) ==
    50 + DocAdj(1, p) + DocAdj(2, p) + DocAdj(3, p) + DocAdj(4, p)
       + DocAdj(5, p) + DocAdj(6, p) + DocAdj(7, p)

DocLabel(score) ==
    CASE score >= 70 -> "SAFE"
      [] score <= 40 -> "UNSAFE"
      [] OTHER -> "RISKY"

UnsafeExample ==
    [volToMc |-> Frac(1, 10), lpLockedPct |-> Num(10), tx24 |-> Num(10),
     priceCh24 |-> Num(500), dexLabel |-> "danger", ageMin |-> Num(60),
     marketCap |-> Num(10000)]

SafeExample ==
    [volToMc |-> Frac(3, 2), lpLockedPct |-> Num(80), tx24 |-> Num(1200),
     priceCh24 |-> Num(5), dexLabel |-> "safe", ageMin |-> NULL,
     marketCap |-> NULL]

\* C1: for every combination of signals, missing ones included, the label
\* returned by computeHealthVerdict is the one the documented score gives
\* (SAFE iff score >= 70, UNSAFE iff score <= 40, RISKY otherwise), and the
\* documented example (0.1, 10, 10, 500, danger, 60, 10000) scores -20 and is
\* UNSAFE.
C1_LabelMatchesDocumentedScore ==
    health # NoVerdict =>
        /\ HealthScore(params).score = DocScore(params)
        /\ health.label = DocLabel(DocScore(params))
        /\ (health.label = "SAFE") = (DocScore(params) >= 70)
        /\ (health.label = "UNSAFE") = (DocScore(params) <= 40)
        /\ health.label \in {"SAFE", "RISKY", "UNSAFE"}
        /\ params = UnsafeExample =>
               DocScore(params) = -20 /\ health.label = "UNSAFE"

C1_Witness ==
    /\ health # NoVerdict
    /\ params = UnsafeExample
    /\ health.label = "UNSAFE"

\* C2: the documented example (1.5, 80, 1200, 5, safe, age and market cap
\* missing) scores 95, is SAFE, and its reasons are exactly the four documented
\* strings in the documented order.
C2_SafeExampleReasons ==
    (health # NoVerdict /\ params = SafeExample) =>
        /\ HealthScore(params).score = 95
        /\ health.label = "SAFE"
        /\ health.reasons = <<"volume/mc strong", "LP locked high",
                              "tx active", "dex risk: safe">>

C2_Witness ==
    /\ health # NoVerdict
    /\ params = SafeExample
    /\ Len(health.reasons) = 4

\* the rule a reason string belongs to, and the adjustment it stands for
ReasonRule ==
    [r \in {"volume/mc strong", "volume/mc moderate", "volume/mc weak",
            "LP locked high", "LP lock low", "tx active", "tx low",
            "extreme pump", "dumping", "dex risk: safe", "dex risk: danger",
            "age>50m & mc<20k"} |->
        CASE r \in {"volume/mc strong", "volume/mc moderate", "volume/mc weak"} -> 1
          [] r \in {"LP locked high", "LP lock low"} -> 2
          [] r \in {"tx active", "tx low"} -> 3
          [] r = "extreme pump" -> 4
          [] r = "dumping" -> 5
          [] r \in {"dex risk: safe", "dex risk: danger"} -> 6
          [] r = "age>50m & mc<20k" -> 7]

ReasonDelta ==
    [r \in DOMAIN ReasonRule |->
        CASE r = "volume/mc strong" -> 20
          [] r = "volume/mc moderate" -> 5
          [] r = "volume/mc weak" -> -20
          [] r = "LP locked high" -> 15
          [] r = "LP lock low" -> -15
          [] r = "tx active" -> 5
          [] r = "tx low" -> -5
          [] r = "dex risk: safe" -> 5
          [] OTHER -> -10]

\* C3: the reasons list preserves the evaluation order of the rules: its
\* entries are known reasons in strictly increasing rule order (so at most one
\* per rule), and a rule has a reason in the list exactly when it changed the
\* score, the reason being the one of the adjustment made.
C3_ReasonsInEvaluationOrder ==
    health # NoVerdict =>
        LET rs == health.reasons IN
        /\ \A i \in 1..Len(rs) : rs[i] \in DOMAIN ReasonRule
        /\ \A i, j \in 1..Len(rs) :
               i < j => ReasonRule[rs[i]] < ReasonRule[rs[j]]
        /\ \A i \in 1..Len(rs) :
               ReasonDelta[rs[i]] = DocAdj(ReasonRule[rs[i]], params)
        /\ \A k \in 1..7 :
               (DocAdj(k, params) # 0) =
               (\E i \in 1..Len(rs) : ReasonRule[rs[i]] = k)

C3_Witness ==
    /\ health # NoVerdict
    /\ Len(health.reasons) = 6
    /\ health.reasons[4] = "dumping"
    /\ health.reasons[5] = "dex risk: safe"

\* reason r is in the reasons of the verdict
HasReason(r) == \E i \in 1..Len(health.reasons) : health.reasons[i] = r

\* C19: the compound rule (score -10, reason 'age>50m & mc<20k') is applied
\* if and only if ageMin and marketCap are both present, ageMin > 50 and
\* marketCap < 20000; when either is missing the rule is skipped whatever the
\* other is, and ageMin = 50 or marketCap = 20000 do not trigger it.
C19_CompoundRule ==
    health # NoVerdict =>
        LET applies == /\ params.ageMin # NULL
                       /\ params.marketCap # NULL
                       /\ Gt(params.ageMin, 50, 1)
                       /\ Lt(params.marketCap, 20000, 1)
            without == HealthScore([params EXCEPT !.ageMin = NULL]).score
        IN  /\ HasReason("age>50m & mc<20k") = applies
            /\ HealthScore(params).score =
                  IF applies THEN without - 10 ELSE without
            /\ health.label = DocLabel(IF applies THEN without - 10 ELSE without)

\* a token of 51 minutes at a market cap of 19999: the rule is applied
C19_Witness ==
    /\ health # NoVerdict
    /\ params.ageMin = Num(51)
    /\ params.marketCap = Num(19999)
    /\ HasReason("age>50m & mc<20k")

\* C20: for every 24h price change at most one of the two price-change rules
\* fires: the reasons never hold both 'extreme pump' and 'dumping', the
\* deduction due to the price change is 0 or 10 and never 20, and there is no
\* deduction for a change in -60..400 inclusive or for a missing change.
C20_OnePriceChangeRule ==
    health # NoVerdict =>
        LET without == HealthScore([params EXCEPT !.priceCh24 = NULL]).score
            deduction == without - HealthScore(params).score
            calm == \/ params.priceCh24 = NULL
                    \/ /\ Ge(params.priceCh24, -60, 1)
                       /\ ~Gt(params.priceCh24, 400, 1)
        IN  /\ ~(HasReason("extreme pump") /\ HasReason("dumping"))
            /\ deduction \in {0, 10}
            /\ (deduction = 10) = (HasReason("extreme pump") \/ HasReason("dumping"))
            /\ calm => deduction = 0

\* a change of +401: 'extreme pump' and not 'dumping'
C20_Witness ==
    /\ health # NoVerdict
    /\ params.priceCh24 = Num(401)
    /\ HasReason("extreme pump")
    /\ ~HasReason("dumping")

---------------------------------------------------------------------------
(* groupedActivity: the specification *)

ActivityInit ==
    /\ ActivityMount
    /\ HealthMount
    /\ ScannerMount
    /\ AnalyzerMount
    /\ TradeMount

\* setState(data) with the ledger one executed trade longer; the memos of
\* groupedActivity and of the profile aggregates are recomputed for the new
\* state.history
SetState ==
    /\ Len(history) < MaxHist
    /\ \E ts \in TsVals, side \in Sides, mint \in Mints, t \in Trades :
          snapshot' = Append(history,
                             HistoryItem(Len(history) + 1, ts, side, mint, t))
    /\ groupedActivity' = GroupedActivity(snapshot')
    /\ history' = HistAfterMemo(snapshot')
    /\ profile' = Profile(snapshot')
    /\ UNCHANGED <<refreshVars, healthVars, scannerVars, analyzerVars,
                   tradeVars>>

ActivityNext == SetState

SpecActivity == ActivityInit /\ [][ActivityNext]_vars

---------------------------------------------------------------------------
(* The ledger read directly, entry by entry, for the claims on groupedActivity *)

RECURSIVE SumOver(_, _)
SumOver(f, S) ==
    IF S = {} THEN 0
    ELSE LET i == CHOOSE i \in S : TRUE IN f[i] + SumOver(f, S \ {i})

\* the positions in history of the entries of a token on one side
EntriesOf(mint, side) ==
    {i \in 1..Len(history) : history[i].mint = mint /\ history[i].side = side}

LedgerValue == [i \in 1..Len(history) |-> history[i].value]
LedgerQty == [i \in 1..Len(history) |-> history[i].qty]
LedgerPriceQty == [i \in 1..Len(history) |-> history[i].price * history[i].qty]
LedgerFee ==
    [i \in 1..Len(history) |->
        IF history[i].fee = NULL THEN 0 ELSE history[i].fee[1]]

\* the places an entry can be filed at: <<group, list, position>>
Places ==
    {<<k, "buy", j>> : k \in 1..Len(groupedActivity), j \in 1..MaxHist} \cup
    {<<k, "sell", j>> : k \in 1..Len(groupedActivity), j \in 1..MaxHist}

FiledAt(pl) ==
    LET g == groupedActivity[pl[1]]
        xs == IF pl[2] = "buy" THEN g.buys ELSE g.sells
    IN  IF pl[3] \in 1..Len(xs) THEN <<xs[pl[3]]>> ELSE <<>>

\* one buy of 10 @ 2 (value 20) then one sell of 10 @ 3 (value 30), no fees
BuySellExample ==
    /\ Len(history) = 2
    /\ history[1].mint = history[2].mint
    /\ history[1].side = "buy" /\ history[1].price = 2
    /\ history[1].qty = 10 /\ history[1].value = 20 /\ history[1].fee = NULL
    /\ history[2].side = "sell" /\ history[2].price = 3
    /\ history[2].qty = 10 /\ history[2].value = 30 /\ history[2].fee = NULL

\* C4: groupedActivity holds exactly one summary per distinct token address of
\* the history, and every history entry is filed exactly once: in the summary
\* of its token, under buys if its side is buy and under sells otherwise.  The
\* empty history gives no summary.
C4_OneSummaryPerToken ==
    LET mints == {history[i].mint : i \in 1..Len(history)} IN
    /\ Len(groupedActivity) = Cardinality(mints)
    /\ {groupedActivity[k].mint : k \in 1..Len(groupedActivity)} = mints
    /\ \A i \in 1..Len(history) :
          LET at == {pl \in Places :
                        FiledAt(pl) = <<history[i]>>}
          IN  /\ Cardinality(at) = 1
              /\ \A pl \in at :
                    /\ groupedActivity[pl[1]].mint = history[i].mint
                    /\ pl[2] = history[i].side
    /\ \A k \in 1..Len(groupedActivity) :
          Len(groupedActivity[k].buys) + Len(groupedActivity[k].sells) =
          Cardinality(EntriesOf(groupedActivity[k].mint, "buy")) +
          Cardinality(EntriesOf(groupedActivity[k].mint, "sell"))
    /\ (history = <<>>) => (groupedActivity = <<>>)

C4_Witness ==
    /\ Len(history) = 3
    /\ Len(groupedActivity) = 2
    /\ \E k \in 1..2 :
          /\ Len(groupedActivity[k].buys) = 1
          /\ Len(groupedActivity[k].sells) = 1

\* C5: per token, realized PnL = sell values - buy values - fees of its buys
\* and sells (a missing fee counting 0); PnL% = pnl / buyCost * 100 and is null
\* exactly when buyCost is 0.  One buy 10 @ 2 and one sell 10 @ 3 without fees
\* give PnL 10 and PnL% 50.
C5_RealizedPnlPerToken ==
    /\ \A k \in 1..Len(groupedActivity) :
          LET g == groupedActivity[k]
              B == EntriesOf(g.mint, "buy")
              S == EntriesOf(g.mint, "sell")
              cost == SumOver(LedgerValue, B)
              pnl == SumOver(LedgerValue, S) - cost - SumOver(LedgerFee, B \cup S)
          IN  /\ g.pnl = pnl
              /\ (g.pnlPct = NULL) = (cost = 0)
              /\ cost # 0 => NumEq(g.pnlPct, Div(pnl * 100, cost))
    /\ BuySellExample =>
          /\ groupedActivity[1].pnl = 10
          /\ NumEq(groupedActivity[1].pnlPct, Num(50))

C5_Witness ==
    /\ BuySellExample
    /\ Len(groupedActivity) = 1
    /\ groupedActivity[1].pnl = 10

\* C6: per token, the weighted average buy price is sum(price * qty) / sum(qty)
\* over its buys and null when that quantity is 0; the sell price likewise
\* over its sells, so a token with only buys has a null sell price.
C6_WeightedAveragePrices ==
    /\ \A k \in 1..Len(groupedActivity) :
          LET g == groupedActivity[k]
              B == EntriesOf(g.mint, "buy")
              S == EntriesOf(g.mint, "sell")
          IN  /\ (g.buyWeightedPrice = NULL) = (SumOver(LedgerQty, B) = 0)
              /\ (g.sellWeightedPrice = NULL) = (SumOver(LedgerQty, S) = 0)
              /\ SumOver(LedgerQty, B) # 0 =>
                    NumEq(g.buyWeightedPrice,
                          Div(SumOver(LedgerPriceQty, B), SumOver(LedgerQty, B)))
              /\ SumOver(LedgerQty, S) # 0 =>
                    NumEq(g.sellWeightedPrice,
                          Div(SumOver(LedgerPriceQty, S), SumOver(LedgerQty, S)))
              /\ S = {} => g.sellWeightedPrice = NULL
    /\ BuySellExample =>
          /\ NumEq(groupedActivity[1].buyWeightedPrice, Num(2))
          /\ NumEq(groupedActivity[1].sellWeightedPrice, Num(3))

\* two buys of one token at different prices and quantities, and no sell
C6_Witness ==
    /\ Len(groupedActivity) = 1
    /\ Len(groupedActivity[1].buys) = 2
    /\ groupedActivity[1].sells = <<>>
    /\ NumEq(groupedActivity[1].buyWeightedPrice, Div(7, 3))
    /\ groupedActivity[1].sellWeightedPrice = NULL

\* C7: the summaries are sorted descending by lastTs, and the lastTs of a
\* summary is the greatest timestamp among the history entries of its token,
\* whatever their order in the history.
C7_SortedByMostRecent ==
    /\ \A a, b \in 1..Len(groupedActivity) :
          a < b => groupedActivity[a].lastTs >= groupedActivity[b].lastTs
    /\ \A k \in 1..Len(groupedActivity) :
          LET g == groupedActivity[k]
              E == EntriesOf(g.mint, "buy") \cup EntriesOf(g.mint, "sell")
          IN  /\ \E i \in E : history[i].ts = g.lastTs
              /\ \A i \in E : history[i].ts <= g.lastTs

\* the token seen first in the history is listed last, and its newest entry
\* is not its last one
C7_Witness ==
    /\ Len(history) = 3
    /\ Len(groupedActivity) = 2
    /\ groupedActivity[2].mint = history[1].mint
    /\ groupedActivity[2].mint = history[3].mint
    /\ history[1].ts > history[3].ts
    /\ groupedActivity[1].lastTs > groupedActivity[2].lastTs

OverGroups(f) ==
    SumSeq([i \in 1..Len(groupedActivity) |-> groupedActivity[i][f]])

\* C29: for every history, the per-token realized PnL of the activity
\* aggregation, summed over all token groups, is the ledger-wide realized
\* PnL (sellProceeds - buyCost - totalFees) over the full history; likewise
\* the per-token buy costs, sell proceeds and fees sum to the ledger-wide
\* totals.
C29_GroupsSumToLedger ==
    /\ OverGroups("pnl") = profile.realizedPnL
    /\ OverGroups("buyCost") = profile.buyCost
    /\ OverGroups("sellProceeds") = profile.sellProceeds
    /\ OverGroups("fees") = profile.totalFees
    /\ profile.realizedPnL =
          profile.sellProceeds - profile.buyCost - profile.totalFees

\* two tokens, three trades with buys, sells and a fee
C29_Witness ==
    /\ Len(history) = 3
    /\ Len(groupedActivity) = 2
    /\ profile.buyCost = 20
    /\ profile.sellProceeds = 45
    /\ profile.totalFees = 1
    /\ profile.realizedPnL = 24
    /\ OverGroups("pnl") = 24

---------------------------------------------------------------------------
(* MemeScanner: the specification *)

ScannerInit ==
    /\ ScannerMount
    /\ HealthMount
    /\ ActivityMount
    /\ AnalyzerMount
    /\ TradeMount

\* the memos and the stable values after a render of rep and resp
Rerender(rep, resp) ==
    LET st == Rendered(rep, resp, priceUsdStable, supplyStable, marketCapStable)
    IN  /\ supply' = st.supply
        /\ priceUsd' = st.priceUsd
        /\ marketCap' = st.marketCap
        /\ priceUsdStable' = st.priceUsdStable
        /\ supplyStable' = st.supplyStable
        /\ marketCapStable' = st.marketCapStable
        /\ lastValidMarketCap' =
              IF st.marketCap # NULL
              THEN [cap |-> st.marketCap, supply |-> st.supply]
              ELSE lastValidMarketCap

\* the variables of the other components
aroundScanner == <<healthVars, activityVars, analyzerVars, tradeVars>>

dataVars ==
    <<report, priceResp, supply, priceUsd, marketCap, priceUsdStable,
      supplyStable, marketCapStable, lastValidMarketCap>>

\* onChange={e => setInputMint(e.target.value)}
SetInputMint ==
    /\ \E text \in InputTexts : text # inputMint /\ inputMint' = text
    /\ UNCHANGED <<searchedMint, lastValidPrice, observedFor, dataVars,
                 aroundScanner>>

\* the Paste button: if (text) setInputMint(text.trim())
Paste ==
    /\ \E text \in InputTexts : text # <<>> /\ inputMint' = Trim(text)
    /\ UNCHANGED <<searchedMint, lastValidPrice, observedFor, dataVars,
                 aroundScanner>>

\* setSearchedMint(m): with keepPreviousData the data of the previous key
\* stays until the new key's data arrives
setSearchedMint(m) ==
    /\ searchedMint' = m
    /\ lastValidPrice' = IF m = searchedMint THEN lastValidPrice ELSE NULL
    /\ UNCHANGED <<inputMint, observedFor, dataVars, aroundScanner>>

\* onClick={() => canScan && setSearchedMint(inputMint.trim())}
ScanClick ==
    /\ isValidMint(inputMint)
    /\ setSearchedMint(Trim(inputMint))

\* onKeyDown: if (e.key === 'Enter' && canScan) setSearchedMint(...)
EnterKey ==
    /\ isValidMint(inputMint)
    /\ setSearchedMint(Trim(inputMint))

\* onClick={() => { setInputMint(''); setSearchedMint(null); }}
Clear ==
    /\ inputMint' = <<>>
    /\ searchedMint' = NULL
    /\ lastValidPrice' = NULL
    /\ UNCHANGED <<observedFor, dataVars, aroundScanner>>

\* the price poll (every 300 ms) answers for the scanned address
PriceTick ==
    /\ searchedMint # NULL
    /\ \E resp \in PriceResponses :
          /\ priceResp' = resp
          /\ Rerender(report, resp)
          /\ lastValidPrice' =
                IF IsFiniteNumber(PriceUsd(resp)) THEN PriceUsd(resp)
                ELSE lastValidPrice
          /\ observedFor' = Provenance(report, resp, observedFor.rep,
                                       searchedMint, observedFor)
    /\ UNCHANGED <<inputMint, searchedMint, report, aroundScanner>>

\* the report fetch answers for the scanned address
ReportArrives ==
    /\ searchedMint # NULL
    /\ \E rep \in Reports :
          /\ report' = rep
          /\ Rerender(rep, priceResp)
          /\ observedFor' = Provenance(rep, priceResp, searchedMint,
                                       observedFor.resp, observedFor)
    /\ UNCHANGED <<inputMint, searchedMint, priceResp, lastValidPrice, aroundScanner>>

ScannerNext ==
    \/ SetInputMint
    \/ Paste
    \/ ScanClick
    \/ EnterKey
    \/ Clear
    \/ PriceTick
    \/ ReportArrives

SpecScanner == ScannerInit /\ [][ScannerNext]_vars

---------------------------------------------------------------------------
(* MemeScanner: market cap and sticky price *)

\* a + b on wide numbers
WideAdd(a, b) ==
    <<a[1] + b[1] + ((a[2] + b[2]) \div Limb), (a[2] + b[2]) % Limb>>

\* s + s + ... + s, n times: the product n * s without multiplying
RECURSIVE RepeatedSum(_, _)
RepeatedSum(n, s) ==
    IF n = 0 THEN <<0, 0>>
    ELSE WideAdd(RepeatedSum(n - 1, s), <<s \div Limb, s % Limb>>)

\* operands of the market-cap computation, missing ones included
PriceOperands == {NULL, Num(0), Num(5), Num(7)}
SupplyOperands == {NULL, Num(1000), Num(NoReportSupply), Num(DefaultSupply)}

\* the market cap the specification documents for operands p and s
DocMarketCap(p, s) ==
    IF p = NULL \/ s = NULL THEN NULL ELSE RepeatedSum(p[1], s[1])

\* C8: the market-cap computation gives null whenever the price is null or
\* the supply is null, and price * supply otherwise; a missing operand never
\* becomes a market cap of 0 or of any other number.  Stated of the market cap
\* the scanner holds for its current price and supply, and of the computation
\* over operands that include a missing supply.
C8_MarketCapNullOrProduct ==
    /\ marketCap = DocMarketCap(priceUsd, supply)
    /\ (priceUsd = NULL \/ supply = NULL) => marketCap = NULL
    /\ (priceResp = NULL \/ priceResp.price = NULL) => marketCap = NULL
    /\ \A p \in PriceOperands, s \in SupplyOperands :
          MarketCap(p, s) = DocMarketCap(p, s)

\* a scan whose price source reports no price while the report gives a
\* supply of 1000: there is no market cap
C8_Witness ==
    /\ searchedMint # NULL
    /\ priceResp = [price |-> NULL, isFallback |-> FALSE]
    /\ report = [token |-> [supply |-> Num(1000000), decimals |-> Num(3)]]
    /\ supply = Num(1000)
    /\ priceUsd = NULL
    /\ marketCap = NULL

\* C9: within one scan session, once a valid price has been observed, the
\* displayed price (priceUsdStable ?? priceUsd) is the most recent valid price
\* on every later tick, in particular on a tick where the price source
\* reports null, and it is never the placeholder shown for null.
C9_StickyPrice ==
    lastValidPrice # NULL =>
        /\ DisplayedPrice = lastValidPrice
        /\ DisplayedPrice # NULL

\* the ticks 5, null of one session: the price shown is still 5
C9_Witness ==
    /\ searchedMint # NULL
    /\ lastValidPrice = Num(5)
    /\ priceResp = [price |-> NULL, isFallback |-> FALSE]
    /\ priceUsd = NULL
    /\ DisplayedPrice = Num(5)

\* the supply the specification documents for a report: rawSupply /
\* 10^decimals for a finite positive supply, the default otherwise
DocSupply(rep) ==
    IF /\ rep # NULL
       /\ rep.token # NULL
       /\ IsFiniteNumber(rep.token.supply)
       /\ rep.token.supply[1] > 0
    THEN LET d == IF rep.token.decimals = NULL THEN 0
                  ELSE rep.token.decimals[1]
         IN  Div(rep.token.supply[1], 10 ^ d)
    ELSE Num(1000000000)

\* C12: the supply the scanner uses is rawSupply / 10^decimals when the
\* report gives a finite positive supply; in every other case (no report or
\* no token record yet, supply missing, not finite, or not positive) it is
\* the fallback default 1,000,000,000.
C12_SupplyOrDefault == NumEq(supply, DocSupply(report))

\* a string without leading or trailing white space, of 32 to 44 base58
\* characters
IsTrimmedAddress(s) ==
    /\ Len(s) \in 32..44
    /\ \A i \in 1..Len(s) : s[i] \in Base58 /\ s[i] \notin WhiteSpace

\* C16: an invalid token address is rejected before any scan: in every
\* reachable state of the scanner searchedMint is null or a trimmed string of
\* 32 to 44 base58 characters, whichever of Scan, Enter, Paste and Clear the
\* user uses and in whatever order; the report and price keys, which are
\* derived from searchedMint, are therefore never those of an invalid input.
C16_OnlyValidAddressScanned ==
    searchedMint # NULL => IsTrimmedAddress(searchedMint)

\* an address typed with surrounding blanks has been scanned: the scanned
\* address is the trimmed one
C16_Witness ==
    /\ inputMint = <<" ">> \o Chars("A", 32) \o <<" ">>
    /\ searchedMint = Chars("A", 32)

\* C21: sticky values do not outlive their scan session.  While an address
\* is scanned, the price, the supply and the market cap the cards show, and
\* the price and the market cap handed to TradePanel (the same two
\* expressions, lines 1967-1968), are never values observed for another
\* address: each is the placeholder or null, or was observed for the address
\* now scanned.
C21_NoValueOfPreviousToken ==
    searchedMint # NULL =>
        /\ DisplayedPrice # NULL => observedFor.price = searchedMint
        /\ DisplayedSupply # NULL => observedFor.supply \in {searchedMint, NULL}
        /\ DisplayedMarketCap # NULL =>
                observedFor.cap \subseteq {searchedMint, NULL}

\* C22 as stated: once a valid market cap has been displayed, on every tick
\* where the live market cap is null the displayed market cap is the last
\* valid market cap observed.
C22_LastObservedMarketCap ==
    (lastValidMarketCap # NULL /\ marketCap = NULL) =>
        DisplayedMarketCap = lastValidMarketCap.cap

\* C22, amended: once a valid market cap has been displayed, the displayed
\* market cap is never the placeholder; it is the live market cap when that
\* is valid, and otherwise the product of the sticky price and the sticky
\* supply rounded to two decimals, which is the last valid market cap
\* observed as long as the supply has not changed since.
C22_StickyMarketCap ==
    lastValidMarketCap # NULL =>
        /\ DisplayedMarketCap # NULL
        /\ marketCap # NULL => DisplayedMarketCap = marketCap
        /\ marketCap = NULL =>
              /\ DisplayedMarketCap =
                    ToFixed2(Times(priceUsdStable[1], supplyStable[1]))
              /\ supplyStable = lastValidMarketCap.supply =>
                    DisplayedMarketCap = ToFixed2(lastValidMarketCap.cap)

\* price 5 with the supply of no report, then a null price, then a report
\* with supply 1000: the card shows 5 * 1000
C22_Witness ==
    /\ lastValidMarketCap # NULL
    /\ lastValidMarketCap.cap = Times(5, NoReportSupply)
    /\ marketCap = NULL
    /\ supplyStable = Num(1000)
    /\ DisplayedMarketCap = Times(5, 1000)

---------------------------------------------------------------------------
(* PortfolioAnalyzer: the specification *)

AnalyzerInit ==
    /\ AnalyzerMount
    /\ HealthMount
    /\ ActivityMount
    /\ ScannerMount
    /\ TradeMount

aroundAnalyzer ==
    <<healthVars, activityVars, scannerVars, tradeVars, pollVars>>

\* the memos of a render at time t
AnalyzerRender(d, tf, t) ==
    /\ now' = t
    /\ realizedPnL' = RealizedPnL(HistoryOf(d))
    /\ timeframeStats' = TimeframeStats(HistoryOf(d), tf, t)

\* the collaborator executes a trade: the ledger gains an entry
TradeExecuted ==
    /\ Len(ledger) < MaxLedger
    /\ \E ts \in LedgerTs, side \in Sides, tr \in Trades :
          ledger' = Append(ledger,
                           HistoryItem(Len(ledger) + 1, ts, side, "mintA", tr))
    /\ UNCHANGED <<data, analyzerError, pollAnswer, timeframe, now,
                   realizedPnL, timeframeStats, aroundAnalyzer>>

\* how a response counts: answered with success, answered with a
\* non-success status, or not answered
AnswerOf(res) ==
    IF res = NULL THEN "unreachable" ELSE IF res.ok THEN "ok" ELSE "failed"

\* fetch resolved and res.json() gave a value
HasJson(res) == IF res = NULL THEN FALSE ELSE res.json # NULL

\* tick (lines 79-93): setError(null); res = await fetch; json = await
\* res.json(); setData(json), whatever the status of res; a rejection of
\* fetch or of res.json() is caught: setError(message).  The memos follow
\* data.history.
Poll ==
    \E t \in NowVals, res \in StateResponses(ledger) :
        /\ t >= now
        /\ pollAnswer' = AnswerOf(res)
        /\ \/ /\ HasJson(res)
              /\ data' = res.json
              /\ analyzerError' = NoError
              /\ AnalyzerRender(data', timeframe, t)
           \/ /\ ~HasJson(res)
              /\ analyzerError' = "Failed to load state"
              /\ UNCHANGED <<data, now, realizedPnL, timeframeStats>>
        /\ UNCHANGED <<ledger, timeframe, aroundAnalyzer>>

\* the timeframe tabs: setTimeframe(tf)
SetTimeframe ==
    \E tf \in Timeframes, t \in NowVals :
        /\ t >= now
        /\ tf # timeframe
        /\ timeframe' = tf
        /\ AnalyzerRender(data, tf, t)
        /\ UNCHANGED <<ledger, data, analyzerError, pollAnswer, aroundAnalyzer>>

AnalyzerNext ==
    \/ TradeExecuted
    \/ Poll
    \/ SetTimeframe

SpecAnalyzer == AnalyzerInit /\ [][AnalyzerNext]_vars

---------------------------------------------------------------------------
(* PortfolioAnalyzer: the unbounded window *)

\* the positions in the polled ledger of the entries of one side
LedgerSide(side) ==
    {i \in 1..Len(HistoryOf(data)) : HistoryOf(data)[i].side = side}

PolledValue == [i \in 1..Len(HistoryOf(data)) |-> HistoryOf(data)[i].value]
PolledFee ==
    [i \in 1..Len(HistoryOf(data)) |->
        IF HistoryOf(data)[i].fee = NULL THEN 0 ELSE HistoryOf(data)[i].fee[1]]

\* sum(sell values) - sum(buy values) - sum(fees) over the full history
LedgerRealizedPnL ==
    SumOver(PolledValue, LedgerSide("sell"))
      - SumOver(PolledValue, LedgerSide("buy"))
      - SumOver(PolledFee, 1..Len(HistoryOf(data)))

\* C10: for every history whose timestamps are non-negative, the timeframe
\* aggregation over the unbounded window ('all', window start 0) gives a pnl
\* equal to the ledger-wide realized PnL, sum(sell values) - sum(buy values)
\* - sum(fees) over the full history.
C10_AllWindowIsLedgerPnL ==
    timeframe = "all" =>
        /\ timeframeStats.pnl = LedgerRealizedPnL
        /\ timeframeStats.pnl = realizedPnL

\* the unbounded window over a ledger with a buy at timestamp 0 and a later
\* sell that paid a fee
C10_Witness ==
    /\ timeframe = "all"
    /\ Len(HistoryOf(data)) = 2
    /\ data.history[1].side = "buy" /\ data.history[1].ts = 0
    /\ data.history[1].value = 20
    /\ data.history[2].side = "sell" /\ data.history[2].ts = 168
    /\ data.history[2].fee = Num(1)
    /\ timeframeStats.pnl = -6

\* the length in hours of the window a timeframe names
DocWindowHours ==
    [tf \in Timeframes \ {"all"} |->
        CASE tf = "1h" -> 1 [] tf = "6h" -> 6 [] tf = "12h" -> 12
          [] tf = "24h" -> 24 [] tf = "7d" -> 168]

\* the window start of the last aggregation
DocWindowStart ==
    IF timeframe = "all" THEN 0 ELSE now - DocWindowHours[timeframe]

\* the positions in the polled ledger of the entries of one side whose
\* timestamp is at or after the window start
WindowSide(side) ==
    {i \in LedgerSide(side) : HistoryOf(data)[i].ts >= DocWindowStart}

WindowAll ==
    {i \in 1..Len(HistoryOf(data)) : HistoryOf(data)[i].ts >= DocWindowStart}

DocWindowPnl ==
    SumOver(PolledValue, WindowSide("sell"))
      - SumOver(PolledValue, WindowSide("buy"))
      - SumOver(PolledFee, WindowAll)

\* C11: for every history and window start, the timeframe aggregation counts
\* exactly the entries whose timestamp is >= the window start (one exactly at
\* the start is counted, an earlier one is not), its pnl is sells - buys - fees
\* over those entries, and its roi is pnl / buys * 100 when the windowed buy
\* total is > 0 and null otherwise.
C11_WindowedPnlAndRoi ==
    LET buys == SumOver(PolledValue, WindowSide("buy")) IN
    /\ timeframeStats.pnl = DocWindowPnl
    /\ buys > 0 => NumEq(timeframeStats.roi, Div(DocWindowPnl * 100, buys))
    /\ buys <= 0 => timeframeStats.roi = NULL

\* the one-hour window at time 169: the sell at 167 is left out, the buy
\* exactly at the window start 168 is counted
C11_Witness ==
    /\ timeframe = "1h"
    /\ now = 169
    /\ Len(HistoryOf(data)) = 2
    /\ data.history[1].side = "sell" /\ data.history[1].ts = 167
    /\ data.history[2].side = "buy" /\ data.history[2].ts = 168
    /\ data.history[2].value = 20
    /\ timeframeStats.pnl = -20
    /\ NumEq(timeframeStats.roi, Num(-100))

\* the responses with a non-success status
FailedResponses == {res \in StateResponses(ledger) \ {NULL} : ~res.ok}

\* C17: whenever the collaborator answers a request with a non-success
\* response, the failure is surfaced to the caller as an error (the error
\* state is set or the call rejects) and the body of the failed response is
\* never installed as the application state the derivations are computed
\* from.  Stated of the PortfolioAnalyzer poll, whose handling of the
\* response is that of App.refresh, and of the calls of the api client and
\* the scan fetches.
C17_FailureSurfacedNotInstalled ==
    /\ pollAnswer = "failed" =>
          /\ analyzerError # NoError
          /\ data # ErrorBody
    /\ \A res \in FailedResponses :
          Request(res).threw /\ ScanFetch(res).threw

---------------------------------------------------------------------------
(* TradePanel: the specification *)

TradeInit ==
    /\ TradeMount
    /\ HealthMount
    /\ ActivityMount
    /\ ScannerMount
    /\ AnalyzerMount

aroundTrade ==
    <<healthVars, activityVars, scannerVars, analyzerVars, orderVars>>

\* the memos of a render with snapshot d, price p and market cap mc
TradeRender(d, p, mc) ==
    /\ tradePnl' = Pnl(p, AvgPrice(d), QtyHeld(d))
    /\ tradePnlPct' = PnlPct(p, AvgPrice(d), QtyHeld(d))
    /\ estBoughtMCap' = EstBoughtMCap(mc, AvgPrice(d), p)

\* useSWR('state', api.getState), every 3 s: a snapshot arrives
StateArrives ==
    /\ \E d \in StateSnapshots :
          /\ d # stateData
          /\ stateData' = d
          /\ TradeRender(d, currentPrice, mcapProp)
    /\ UNCHANGED <<currentPrice, mcapProp, aroundTrade>>

\* MemeScanner renders the panel with a new price or market cap
PropsChange ==
    /\ \E p \in CurrentPrices, mc \in MarketCapProps :
          /\ <<p, mc>> # <<currentPrice, mcapProp>>
          /\ currentPrice' = p
          /\ mcapProp' = mc
          /\ TradeRender(stateData, p, mc)
    /\ UNCHANGED <<stateData, aroundTrade>>

TradeNext ==
    \/ StateArrives
    \/ PropsChange

SpecTrade == TradeInit /\ [][TradeNext]_vars

---------------------------------------------------------------------------
(* TradePanel: position PnL, PnL percentage, market cap at entry *)

\* the position PnL the specification documents
DocPnl(price, avg, qty) ==
    IF price = NULL \/ qty[1] = 0 THEN Num(0)
    ELSE Num((price[1] - avg[1]) * qty[1])

\* C13: for every position and current price, the position PnL of TradePanel
\* is (currentPrice - averageEntryPrice) * quantityHeld, and 0 when the
\* quantity held is 0 or the price is unknown (null); a known price, a known
\* price of 0 included, with a non-zero quantity gives the formula's value.
C13_PositionPnl ==
    tradePnl = DocPnl(currentPrice, AvgPrice(stateData), QtyHeld(stateData))

\* x and y are both null or the same number
SameNumber(x, y) == (x = NULL /\ y = NULL) \/ NumEq(x, y)

\* the PnL percentage the specification documents; an entry price is unknown
\* when there is no position
DocPnlPct(price, pos) ==
    IF price = NULL \/ pos = NULL \/ pos.avgPrice[1] <= 0 THEN NULL
    ELSE Div((price[1] - pos.avgPrice[1]) * 100, pos.avgPrice[1])

\* C14: for every position and current price, the position PnL percentage is
\* ((currentPrice - averageEntryPrice) / averageEntryPrice) * 100, and null
\* exactly when averageEntryPrice <= 0 or the current price or the entry price
\* is unknown; a held quantity of 0 or a known current price of 0 does not
\* make it null.  Stated of the percentage TradePanel shows and of the one
\* positionsWithPnl computes from the last known price.
C14_PositionPnlPct ==
    /\ SameNumber(tradePnlPct, DocPnlPct(currentPrice, Pos(stateData)))
    /\ \A last \in CurrentPrices, pos \in Positions \ {NULL} :
          SameNumber(PositionPnlPct(last, pos.avgPrice), DocPnlPct(last, pos))

\* the market cap at entry the specification documents; the entry price is
\* missing when there is no position
DocEstBoughtMCap(mc, pos, price) ==
    IF mc = NULL \/ pos = NULL \/ price = NULL \/ price[1] = 0 THEN NULL
    ELSE Div(mc[1] * pos.avgPrice[1], price[1])

---------------------------------------------------------------------------
(* TradePanel: placing orders *)

\* at most MaxPending handler calls await an answer
MaxPending == 2

OrdersInit ==
    /\ TradeMount
    /\ HealthMount
    /\ ActivityMount
    /\ ScannerMount
    /\ AnalyzerMount

aroundOrders == <<healthVars, activityVars, scannerVars, analyzerVars>>

\* qtyHeld === 0: the Buy box is rendered (line 178); qtyHeld > 0: the Sell
\* box is rendered (line 254)
BuyView == NumEq(QtyHeld(stateData), Num(0))
SellView == Gt(QtyHeld(stateData), 0, 1)

\* the state poll of useSWR (every 3 s) brings a snapshot
StatePoll ==
    /\ \E d \in OrderSnapshots :
          /\ d # stateData
          /\ stateData' = d
          /\ TradeRender(d, currentPrice, mcapProp)
    /\ lastStep' = NULL
    /\ UNCHANGED <<currentPrice, mcapProp, mintProp, usd, selectedPct,
                   actionError, busy, pending, aroundOrders>>

\* the caller renders the panel with another mint or price
OrderProps ==
    /\ \E m \in MintProps, p \in OrderPrices :
          /\ <<m, p>> # <<mintProp, currentPrice>>
          /\ mintProp' = m
          /\ currentPrice' = p
          /\ TradeRender(stateData, p, mcapProp)
    /\ lastStep' = NULL
    /\ UNCHANGED <<stateData, mcapProp, usd, selectedPct, actionError, busy,
                   pending, aroundOrders>>

\* setUsd and setSelectedPct of the amount controls
SetAmount(u, pct) ==
    /\ <<u, pct>> # <<usd, selectedPct>>
    /\ usd' = u
    /\ selectedPct' = pct
    /\ lastStep' = NULL
    /\ UNCHANGED <<panelVars, mintProp, actionError, busy, pending,
                   aroundOrders>>

\* the USD field (line 186): setUsd(v); setSelectedPct(null)
EnterUsd ==
    /\ BuyView
    /\ \E u \in UsdAmounts : SetAmount(u, NULL)

\* the MAX chip (line 198): setUsd(Number(balance.toFixed(2)))
MaxChip ==
    /\ BuyView
    /\ SetAmount(Balance(stateData), NULL)

\* a percent chip (line 211): setUsd(balance * (pct / 100)); setSelectedPct
PercentChip ==
    /\ BuyView
    /\ \E pct \in PercentChips :
          SetAmount(Whole(Div(Balance(stateData)[1] * pct[1], 100)), pct)

\* the Clear button (lines 227-228)
ClearAmount ==
    /\ BuyView
    /\ ~(Falsy(usd) /\ selectedPct = NULL)
    /\ SetAmount(Num(0), NULL)

\* the Buy Now button (line 248) and onBuy up to its first await (lines
\* 77-82)
onBuy ==
    /\ BuyView
    /\ ~(~canBuy(mintProp, currentPrice, usd, Balance(stateData))
          \/ busy = "buy")
    /\ canBuy(mintProp, currentPrice, usd, Balance(stateData))
    /\ InFlight(pending) < MaxPending
    /\ actionError' = NoError
    /\ busy' = "buy"
    /\ pending' = [pending EXCEPT ![<<"buy", "trade">>] = @ + 1]
    /\ lastStep' = [op |-> "buy sent",
                    request |-> BuyRequest(mintProp, currentPrice, usd,
                                           mcapProp)]
    /\ UNCHANGED <<panelVars, mintProp, usd, selectedPct, aroundOrders>>

\* the Sell (All) button (line 260) and onSellAll up to its first await
\* (lines 93-98)
onSellAll ==
    /\ SellView
    /\ ~(~canSell(QtyHeld(stateData), currentPrice) \/ busy = "sell")
    /\ ~(~canSell(QtyHeld(stateData), currentPrice) \/ Falsy(currentPrice))
    /\ InFlight(pending) < MaxPending
    /\ actionError' = NoError
    /\ busy' = "sell"
    /\ pending' = [pending EXCEPT ![<<"sell", "trade">>] = @ + 1]
    /\ lastStep' = [op |-> "sell sent",
                    request |-> SellRequest(mintProp, currentPrice, mcapProp,
                                            QtyHeld(stateData))]
    /\ UNCHANGED <<panelVars, mintProp, usd, selectedPct, aroundOrders>>

\* what a handler's last step did
Done(handler, executed, failed, thrown, dataAfter, usdAfter, pctAfter) ==
    [op |-> "done", handler |-> handler, executed |-> executed,
     failed |-> failed, thrown |-> thrown, afterTrade |-> ~failed,
     dataBefore |-> stateData, dataAfter |-> dataAfter,
     usdBefore |-> usd, usdAfter |-> usdAfter,
     pctBefore |-> selectedPct, pctAfter |-> pctAfter,
     busyAfter |-> NotBusy]

\* catch and finally of a handler (lines 87-91, 101-104)
Caught(handler, stage, message, fallback) ==
    /\ actionError' = MessageOr(message, fallback)
    /\ busy' = NotBusy
    /\ pending' = [pending EXCEPT ![<<handler, stage>>] = @ - 1]
    /\ lastStep' = Done(handler, stage = "refresh", TRUE, message, stateData,
                        usd, selectedPct)
    /\ UNCHANGED <<panelVars, mintProp, usd, selectedPct, aroundOrders>>

\* the trade request was granted: the handler goes on to api.getState()
Granted(handler) ==
    /\ pending' = [pending EXCEPT ![<<handler, "trade">>] = @ - 1,
                                  ![<<handler, "refresh">>] = @ + 1]
    /\ lastStep' = NULL
    /\ UNCHANGED <<panelVars, mintProp, usd, selectedPct, actionError, busy,
                   aroundOrders>>

\* mutate(fresh, { revalidate: false }) and the rest of the try block
\* (onBuy also resets the amount and the percent), then finally
Refreshed(handler, fresh, usdAfter, pctAfter) ==
    /\ stateData' = fresh
    /\ TradeRender(fresh, currentPrice, mcapProp)
    /\ busy' = NotBusy
    /\ pending' = [pending EXCEPT ![<<handler, "refresh">>] = @ - 1]
    /\ usd' = usdAfter
    /\ selectedPct' = pctAfter
    /\ lastStep' = Done(handler, TRUE, FALSE, NoError, fresh, usdAfter,
                        pctAfter)
    /\ UNCHANGED <<currentPrice, mcapProp, mintProp, actionError,
                   aroundOrders>>

\* await api.buy(...) settles (lines 82, 87-91)
BuyAnswered ==
    /\ pending[<<"buy", "trade">>] > 0
    /\ \E res \in OrderResponses(stateData) :
          IF Request(res).threw
          THEN Caught("buy", "trade", Request(res).value, "Buy failed")
          ELSE Granted("buy")

\* await api.getState() of onBuy settles (lines 83-91)
BuyRefreshed ==
    /\ pending[<<"buy", "refresh">>] > 0
    /\ \E d \in OrderSnapshots : \E res \in OrderResponses(d) :
          IF Request(res).threw
          THEN Caught("buy", "refresh", Request(res).value, "Buy failed")
          ELSE Refreshed("buy", Request(res).value, Num(0), NULL)

\* await api.sell(...) settles (lines 98, 101-104)
SellAnswered ==
    /\ pending[<<"sell", "trade">>] > 0
    /\ \E res \in OrderResponses(stateData) :
          IF Request(res).threw
          THEN Caught("sell", "trade", Request(res).value, "Sell failed")
          ELSE Granted("sell")

\* await api.getState() of onSellAll settles (lines 99-104)
SellRefreshed ==
    /\ pending[<<"sell", "refresh">>] > 0
    /\ \E d \in OrderSnapshots : \E res \in OrderResponses(d) :
          IF Request(res).threw
          THEN Caught("sell", "refresh", Request(res).value, "Sell failed")
          ELSE Refreshed("sell", Request(res).value, usd, selectedPct)

OrdersNext ==
    \/ StatePoll
    \/ OrderProps
    \/ EnterUsd
    \/ MaxChip
    \/ PercentChip
    \/ ClearAmount
    \/ onBuy
    \/ onSellAll
    \/ BuyAnswered
    \/ BuyRefreshed
    \/ SellAnswered
    \/ SellRefreshed

SpecOrders == OrdersInit /\ [][OrdersNext]_vars

\* a handler step was just taken
JustSent(op) == IF lastStep = NULL THEN FALSE ELSE lastStep.op = op
JustDone(handler) ==
    IF lastStep = NULL THEN FALSE
    ELSE lastStep.op = "done" /\ lastStep.handler = handler

\* C23: at most one trade request issued by a TradePanel is in flight at any
\* time: while a call of onBuy or onSellAll awaits its request or its state
\* refresh, no other call is started, also when a state poll switches the
\* panel between its buy and sell views.
C23_OneRequestInFlight == InFlight(pending) <= 1

\* C24: a buy request is sent only when, in the state last rendered, the
\* token address is non-empty, the effective price is > 0, the quantity
\* usd / price is > 0, and the total charged, the cost plus the 0.35 fee
\* shown as the grand total, does not exceed the balance.
C24_BuyOnlyWhenAffordable ==
    JustSent("buy sent") =>
        LET ep == effPrice(currentPrice)
            q == effectiveQty(usd, ep)
        IN  /\ mintProp # NoMint
            /\ Gt(ep, 0, 1)
            /\ Gt(q, 0, 1)
            /\ Le(grandTotal(totalCost(ep, q)), Balance(stateData))

\* C25: a sell request is sent only when the position snapshot last rendered
\* holds a quantity > 0 of the token and the current price is neither null
\* nor zero; the request carries no quantity.
C25_SellAllOnlyWhenHolding ==
    JustSent("sell sent") =>
        /\ Pos(stateData) # NULL
        /\ Gt(QtyHeld(stateData), 0, 1)
        /\ currentPrice # NULL
        /\ ~NumEq(currentPrice, Num(0))
        /\ lastStep.request.price = currentPrice
        /\ "qty" \notin DOMAIN lastStep.request

\* a sell of the position of 10 at price 4 was just sent
C25_Witness ==
    /\ JustSent("sell sent")
    /\ QtyHeld(stateData) = Num(10)
    /\ currentPrice = Num(4)
    /\ pending[<<"sell", "trade">>] = 1
    /\ busy = "sell"

\* C26: a trade the collaborator executed is never reported as failed.  When
\* onBuy has finished, actionError was set (the amount left in place,
\* onAfterTrade not called) only if the buy request itself was rejected;
\* when the buy request succeeded, the amount is 0, the percent selection
\* is cleared and onAfterTrade was invoked, whatever the follow-up state
\* refresh did.
C26_ExecutedBuyNotReportedFailed ==
    JustDone("buy") =>
        /\ lastStep.failed => ~lastStep.executed
        /\ lastStep.executed =>
              /\ lastStep.usdAfter = Num(0)
              /\ lastStep.pctAfter = NULL
              /\ lastStep.afterTrade

\* C27: when the buy request is rejected, the entered amount and the
\* selected percentage are unchanged, onAfterTrade is not invoked, the
\* cached snapshot is not replaced, actionError is the failure message, or
\* 'Buy failed' when there is none, and busy is null again.
C27_RejectedBuyFrame ==
    (JustDone("buy") /\ ~lastStep.executed) =>
        /\ usd = lastStep.usdBefore
        /\ selectedPct = lastStep.pctBefore
        /\ ~lastStep.afterTrade
        /\ stateData = lastStep.dataBefore
        /\ actionError =
              IF lastStep.thrown = "" THEN "Buy failed" ELSE lastStep.thrown
        /\ busy = NotBusy

\* a buy of 50, chosen with the 50% chip, was refused without a message
C27_Witness ==
    /\ JustDone("buy")
    /\ ~lastStep.executed
    /\ lastStep.thrown = ""
    /\ actionError = "Buy failed"
    /\ usd = Num(50)
    /\ selectedPct = Num(50)
    /\ busy = NotBusy

---------------------------------------------------------------------------
(* PortfolioAnalyzer: the poll effect, await by await (lines 75-96) *)

\* timeout ids are reused after TimerIds
TimerIds == 2

aroundPoll == <<healthVars, activityVars, scannerVars, tradeVars>>

PollInit ==
    /\ AnalyzerMount
    /\ HealthMount
    /\ ActivityMount
    /\ ScannerMount
    /\ TradeMount

\* the id setTimeout returns after the id t
NextId(t) == (t % TimerIds) + 1

\* finally (lines 89-92): if (mounted) setLoading(false); timer =
\* setTimeout(tick, 2000)
Finally(fired) ==
    /\ loading' = IF mounted THEN FALSE ELSE loading
    /\ timer' = NextId(timer)
    /\ scheduled' = (scheduled \ fired) \cup {NextId(timer)}
    /\ tickPc' = "idle"
    /\ tickRes' = NULL

\* catch (lines 87-88): if (mounted) setError(message)
Catch ==
    /\ analyzerError' =
          IF mounted THEN "Failed to load state" ELSE analyzerError
    /\ UNCHANGED <<data, now, realizedPnL, timeframeStats>>

\* a timeout fires and tick runs to its first await (lines 80-84), or, when
\* not mounted, returns through finally
TimerFires ==
    /\ \E id \in scheduled :
          IF mounted
          THEN /\ scheduled' = scheduled \ {id}
               /\ loading' = TRUE
               /\ analyzerError' = NoError
               /\ tickPc' = "fetch"
               /\ UNCHANGED <<timer, tickRes>>
          ELSE /\ Finally({id})
               /\ UNCHANGED analyzerError
    /\ UNCHANGED <<ledger, data, pollAnswer, timeframe, now, realizedPnL,
                   timeframeStats, mounted, aroundPoll>>

\* await fetch('/api/state') settles (line 84)
FetchSettles ==
    /\ tickPc = "fetch"
    /\ \E res \in StateResponses(ledger) :
          /\ pollAnswer' = AnswerOf(res)
          /\ IF res = NULL
             THEN Catch /\ Finally({})
             ELSE /\ tickPc' = "json"
                  /\ tickRes' = res
                  /\ UNCHANGED <<data, analyzerError, now, realizedPnL,
                                 timeframeStats, loading, timer, scheduled>>
    /\ UNCHANGED <<ledger, timeframe, mounted, aroundPoll>>

\* await res.json() settles (lines 85-86): if (mounted) setData(json)
JsonSettles ==
    /\ tickPc = "json"
    /\ IF HasJson(tickRes)
       THEN /\ IF mounted
               THEN /\ data' = tickRes.json
                    /\ AnalyzerRender(tickRes.json, timeframe, now)
               ELSE UNCHANGED <<data, now, realizedPnL, timeframeStats>>
            /\ UNCHANGED analyzerError
       ELSE Catch
    /\ Finally({})
    /\ UNCHANGED <<ledger, pollAnswer, timeframe, mounted, aroundPoll>>

\* the cleanup of the effect (line 95): mounted = false; if (timer)
\* clearTimeout(timer)
Unmount ==
    /\ mounted
    /\ mounted' = FALSE
    /\ scheduled' = IF timer # 0 THEN scheduled \ {timer} ELSE scheduled
    /\ UNCHANGED <<ledger, data, analyzerError, pollAnswer, timeframe, now,
                   realizedPnL, timeframeStats, loading, tickPc, tickRes,
                   timer, aroundPoll>>

\* the timeframe tabs of the mounted component
PickTimeframe ==
    /\ mounted
    /\ SetTimeframe

PollNext ==
    \/ TimerFires
    \/ FetchSettles
    \/ JsonSettles
    \/ Unmount
    \/ PickTimeframe

SpecPoll == PollInit /\ [][PollNext]_vars

\* a timeout that is set fires, and a pending fetch or body read settles
FairSpecPoll ==
    /\ SpecPoll
    /\ WF_vars(TimerFires)
    /\ WF_vars(FetchSettles)
    /\ WF_vars(JsonSettles)

\* C28: the state poll stops when the component unmounts.  After the
\* cleanup has run no fetch of /api/state is issued and no data, loading or
\* error state is set, and eventually no poll timer is pending and none is
\* scheduled again, also when the unmount happens while a fetch is in
\* flight.
C28_PollStopsOnUnmount ==
    /\ [][~mounted =>
            /\ tickPc' = "fetch" => tickPc = "fetch"
            /\ data' = data
            /\ loading' = loading
            /\ analyzerError' = analyzerError]_vars
    /\ [](~mounted => <>[](scheduled = {}))

---------------------------------------------------------------------------
(* App: overlapping calls of refresh (lines 315-328) *)

aroundRefresh ==
    <<snapshot, history, groupedActivity, profile, healthVars, scannerVars,
      analyzerVars, tradeVars>>

RefreshInit ==
    /\ ActivityMount
    /\ HealthMount
    /\ ScannerMount
    /\ AnalyzerMount
    /\ TradeMount

\* the calls made so far, and the last of them
Called == {n \in 1..MaxRefresh : refreshCalls[n].pc # "none"}
LastCalled == IF Called = {} THEN 0 ELSE CHOOSE n \in Called : \A m \in Called : m <= n

\* the collaborator executes a trade, a deposit, a rename or a reset
ServerChanges ==
    /\ serverRev < MaxRev
    /\ serverRev' = serverRev + 1
    /\ UNCHANGED <<refreshCalls, appState, appLoading, appError, installedBy,
                   aroundRefresh>>

\* refresh up to its first await (lines 316-319): the mount effect, the
\* Refresh button, onAfterTrade, updateName, deposit and the reset call it
refresh ==
    /\ LastCalled < MaxRefresh
    /\ appLoading' = TRUE
    /\ appError' = NoError
    /\ refreshCalls' =
          [refreshCalls EXCEPT ![LastCalled + 1] = [pc |-> "sent", snap |-> NULL]]
    /\ UNCHANGED <<serverRev, appState, installedBy, aroundRefresh>>

\* the collaborator answers a call with its state of that moment
ServerAnswers ==
    /\ \E n \in Called :
          /\ refreshCalls[n].pc = "sent"
          /\ refreshCalls' =
                [refreshCalls EXCEPT
                    ![n] = [pc |-> "answered", snap |-> SnapshotAt(serverRev)]]
    /\ UNCHANGED <<serverRev, appState, appLoading, appError, installedBy,
                   aroundRefresh>>

\* the answer arrives: setState(data), then finally (lines 319-321, 326)
AnswerArrives ==
    /\ \E n \in Called :
          /\ refreshCalls[n].pc = "answered"
          /\ appState' = refreshCalls[n].snap
          /\ installedBy' = n
          /\ refreshCalls' = [refreshCalls EXCEPT ![n].pc = "done"]
    /\ appLoading' = FALSE
    /\ UNCHANGED <<serverRev, appError, aroundRefresh>>

\* fetch or res.json() rejects: catch, then finally (lines 323-326)
RefreshFails ==
    /\ \E n \in Called :
          /\ refreshCalls[n].pc \in {"sent", "answered"}
          /\ refreshCalls' =
                [refreshCalls EXCEPT ![n] = [pc |-> "failed", snap |-> NULL]]
    /\ appError' = "Failed to load data"
    /\ appLoading' = FALSE
    /\ UNCHANGED <<serverRev, appState, installedBy, aroundRefresh>>

RefreshNext ==
    \/ ServerChanges
    \/ refresh
    \/ ServerAnswers
    \/ AnswerArrives
    \/ RefreshFails

SpecRefresh == RefreshInit /\ [][RefreshNext]_vars

\* every call of refresh made has completed
AllCompleted ==
    /\ Called # {}
    /\ \A n \in Called : refreshCalls[n].pc \in {"done", "failed"}

\* C30: when several calls of refresh overlap, once all of them have
\* completed the application state is the snapshot returned for the most
\* recently issued call; the answer to an earlier call that arrives late
\* never overwrites the snapshot of a later one.
C30_LatestRefreshWins ==
    /\ (AllCompleted /\ refreshCalls[LastCalled].pc = "done") =>
          appState = refreshCalls[LastCalled].snap
    /\ \A n \in Called : refreshCalls[n].pc = "done" => installedBy >= n

===========================================================================
